---- MODULE Spec2Model ----
(***************************************************************************)
(* The ticket resolution pipeline of agentic-customer-support:             *)
(*   - CustomerSupportWorkflow.process_ticket: the LangGraph state machine  *)
(*     classify -> search_knowledge -> check_escalation ->                  *)
(*     (escalate_ticket | generate_resolution) -> finalize, each node in    *)
(*     its own try/except;                                                  *)
(*   - CustomerSupportWorkflow.process_batch: the runs of a batch behind    *)
(*     asyncio.Semaphore(3), collected by asyncio.gather.                   *)
(*                                                                         *)
(* Python dicts are functions with string domains ({} is <<>>), floats in   *)
(* [0,1] are integer percents (0.3 is 30), None is the empty string.        *)
(* What the collaborators (the three advisors, the knowledge store, the     *)
(* graph executor) do for a run is that run's behaviour, fixed when the run *)
(* is set up and drawn from a bounded set; the nodes are deterministic      *)
(* functions of the workflow state and the behaviour.                       *)
(***************************************************************************)
EXTENDS Integers, Sequences, FiniteSets, TLC

VARIABLES
    tickets,       \* the input: <<ticket>> for process_ticket, the list for process_batch
    behaviour,     \* per run: what each collaborator does for it
    pc,            \* per run: "waiting" at the gate, the node about to run, or "done"
    state,         \* per run: the SupportWorkflowState the graph is working on
    result,        \* per run: what process_ticket returned (or the exception it raised)
    executed,      \* per run: the nodes that ran, in order (history)
    sem_value,     \* process_batch: free permits of the semaphore
    done_order,    \* process_batch: runs in the order they ended (history)
    batch_pc,      \* "none" (no batch), "gathering", "returned"
    batch_result,  \* what process_batch returned
    store          \* the knowledge index every run reads and updates: its articles

vars == <<tickets, behaviour, pc, state, result, executed,
          sem_value, done_order, batch_pc, batch_result, store>>

batch_vars == <<sem_value, done_order, batch_pc, batch_result, store>>

-----------------------------------------------------------------------------
(* Bounds of the model *)

\* longest batch handed to process_batch
MaxBatch == 4

-----------------------------------------------------------------------------
(* Dictionaries *)

EmptyDict == << >>

HasKey(d, k) == k \in DOMAIN d

SetKey(d, k, v) == [x \in (DOMAIN d) \cup {k} |-> IF x = k THEN v ELSE d[x]]

\* Python's d.get(k, dflt)
Get(d, k, dflt) == IF k \in DOMAIN d THEN d[k] ELSE dflt

\* Python's seq[:n]
Take(seq, n) == SubSeq(seq, 1, IF Len(seq) < n THEN Len(seq) ELSE n)

-----------------------------------------------------------------------------
(* Tickets *)

\* ticket.id is Optional[str]; None is falsy like the empty string
NoId == ""

\* Python's `ticket.id or dflt`
IdOr(ticket, dflt) == IF ticket.id = NoId THEN dflt ELSE ticket.id

BatchTicket(i) == [id |-> "TKT-" \o ToString(i)]

SingleTickets == {[id |-> "TKT-1"], [id |-> NoId]}

-----------------------------------------------------------------------------
(* Exceptions: str(e) of what a collaborator call, a statement of a node    *)
(* body, the graph executor or process_ticket's own handler raised.         *)

AdvisorExcText == "Error generating response: unavailable"

StageExcText == "unexpected error in node"

ExecutorExcText == "graph execution error"

EscapedExcText(ticket) == "unhandled error for " \o IdOr(ticket, "unknown")

-----------------------------------------------------------------------------
(* What the agents return when their collaborator answers. The rule tables  *)
(* of the agents turn an advisory into one of these; here a run's behaviour  *)
(* supplies the outcome, any valid value of the result type.                *)

\* ClassificationResult values (ClassifierAgent.classify_ticket, advisor answered)
ClassifierOutputs ==
    { [category |-> "account", priority |-> "low", confidence |-> 85,
       reasoning |-> "login question"],
      [category |-> "technical", priority |-> "critical", confidence |-> 100,
       reasoning |-> "outage (Security issue detected)"] }

Candidate(n, s, rel) ==
    [article_id |-> "kb-" \o ToString(n), title |-> "Article " \o ToString(n),
     category |-> "account", score |-> s, relevance |-> rel]

\* Ranked candidate lists (KnowledgeAgent.search_knowledge_base, store answered)
RankedLists ==
    { << >>,
      << Candidate(1, 92, "Excellent"), Candidate(2, 80, "Very High"),
         Candidate(3, 61, "High"), Candidate(4, 35, "Low") >> }

\* EscalationDecision values (EscalationAgent.evaluate_escalation, advisor answered)
EvaluatedDecisions ==
    { [should_escalate |-> FALSE, reason |-> "AI: routine request",
       escalation_type |-> "general", priority_level |-> "standard",
       confidence |-> 50],
      [should_escalate |-> TRUE,
       reason |-> "AI: upset customer; Rules: Customer requesting escalation",
       escalation_type |-> "management", priority_level |-> "urgent",
       confidence |-> 80],
      [should_escalate |-> TRUE, reason |-> "AI: payment dispute",
       escalation_type |-> "payments", priority_level |-> "standard",
       confidence |-> 65] }

\* The post-processed reply and its confidence (ResolutionAgent._generate_ai_resolution,
\* generation advisor answered)
GeneratedReplies ==
    { [response |-> "Subject: Re: ... Dear Valued Customer, ... Best regards, Customer Support Team",
       confidence |-> 62] }

-----------------------------------------------------------------------------
(* Behaviours: per run, what each collaborator does.                        *)
(*   kind "answer":        the collaborator answers and the agent returns   *)
(*                         value;                                           *)
(*   kind "advisor_error": the collaborator call raises inside the agent;   *)
(*   kind "stage_error":   a statement of the node's try body raises        *)
(*                         outside the agent's own handler.                 *)
(* executor is "ok" or the node before which the graph executor (ainvoke)   *)
(* raises; handler_raises says that process_ticket's except block itself    *)
(* raises while reporting that failure.                                     *)

Nodes ==
    {"classify", "search_knowledge", "check_escalation",
     "generate_resolution", "escalate_ticket", "finalize"}

Outcomes(values) ==
    { [kind |-> "answer", value |-> v] : v \in values }
    \cup { [kind |-> k, value |-> EmptyDict] : k \in {"advisor_error", "stage_error"} }

Behaviours ==
    [ classify : Outcomes(ClassifierOutputs),
      search   : Outcomes(RankedLists),
      check    : Outcomes(EvaluatedDecisions),
      branch   : Outcomes(GeneratedReplies),
      executor : {"ok"} \cup Nodes,
      handler_raises : {FALSE} ]

\* The behaviours of the runs of a batch, one per way a run can end:
\* completed by generate_resolution, completed by escalate_ticket with a
\* recorded error, failed (the executor raises), raised (the handler raises too)
BatchBehaviours ==
    LET ans(v) == [kind |-> "answer", value |-> v]
        err(k) == [kind |-> k, value |-> EmptyDict]
        c  == CHOOSE x \in ClassifierOutputs : x.category = "account"
        k  == CHOOSE x \in RankedLists : Len(x) > 0
        no == CHOOSE x \in EvaluatedDecisions : ~x.should_escalate
        g  == CHOOSE x \in GeneratedReplies : TRUE
        ok == [classify |-> ans(c), search |-> ans(k), check |-> ans(no),
               branch |-> ans(g), executor |-> "ok", handler_raises |-> FALSE]
    IN  << ok,
           [ok EXCEPT !.check = err("stage_error")],
           [ok EXCEPT !.executor = "search_knowledge"],
           [ok EXCEPT !.executor = "check_escalation", !.handler_raises = TRUE] >>

\* The behaviours of a batch of n runs: every run the same, or the four
\* taken in turn starting anywhere
BatchScripts(n) ==
    LET m == Len(BatchBehaviours)
    IN  { [i \in 1..n |-> BatchBehaviours[k]] : k \in 1..m }
        \cup { [i \in 1..n |-> BatchBehaviours[((i + shift) % m) + 1]] : shift \in 1..m }

-----------------------------------------------------------------------------
(* The agents, as the nodes call them *)

\* ClassifierAgent.classify_ticket: the advisor's error is caught inside the agent
ClassifyTicket(b) ==
    IF b.classify.kind = "advisor_error"
    THEN [category |-> "general", priority |-> "medium", confidence |-> 30,
          reasoning |-> "Classification failed: " \o AdvisorExcText]
    ELSE b.classify.value

\* KnowledgeAgent.search_knowledge_base: a failing search is caught inside the agent
SearchKnowledgeBase(b) ==
    IF b.search.kind = "advisor_error" THEN << >> ELSE b.search.value

Max(S) == CHOOSE x \in S : \A y \in S : y <= x

\* KnowledgeAgent.get_article_summary
GetArticleSummary(results) ==
    IF results = << >>
    THEN [total_results |-> 0, best_match_score |-> 0,
          summary |-> "No relevant articles found"]
    ELSE [total_results |-> Len(results),
          best_match_score |-> Max({results[k].score : k \in 1..Len(results)}),
          summary |-> "Found " \o ToString(Len(results)) \o " relevant articles."]

\* EscalationAgent.evaluate_escalation: the advisor's error is caught inside the agent
EvaluateEscalation(b) ==
    IF b.check.kind = "advisor_error"
    THEN [should_escalate |-> TRUE,
          reason |-> "Escalation evaluation failed: " \o AdvisorExcText,
          escalation_type |-> "technical", priority_level |-> "standard",
          confidence |-> 30]
    ELSE b.check.value

\* EscalationAgent.get_escalation_routing: routing_map
RoutingMap(decision) ==
    [ technical |->
        [department |-> "Technical Support",
         skill_level |-> IF decision.priority_level = "urgent" THEN "senior" ELSE "standard",
         estimated_wait |-> IF decision.priority_level = "urgent"
                            THEN "15-30 minutes" ELSE "1-2 hours"],
      billing |->
        [department |-> "Billing Support", skill_level |-> "standard",
         estimated_wait |-> "30-45 minutes"],
      management |->
        [department |-> "Customer Success", skill_level |-> "manager",
         estimated_wait |-> "45-60 minutes"],
      legal |->
        [department |-> "Legal Affairs", skill_level |-> "specialist",
         estimated_wait |-> "2-4 hours"],
      security |->
        [department |-> "Security Team", skill_level |-> "specialist",
         estimated_wait |-> IF decision.priority_level = "urgent"
                            THEN "Immediate" ELSE "30-60 minutes"] ]

\* EscalationAgent.get_escalation_routing
GetEscalationRouting(decision) ==
    IF ~decision.should_escalate
    THEN [routing |-> "ai_resolution", department |-> ""]
    ELSE LET map   == RoutingMap(decision)
             entry == Get(map, decision.escalation_type, map["technical"])
         IN  SetKey(SetKey(SetKey(entry,
                 "routing", "human_agent"),
                 "escalation_type", decision.escalation_type),
                 "priority", decision.priority_level)

\* ResolutionAgent._generate_escalation_response: the template of the type
\* (unknown types use the technical one), the urgency sentence, the reference
EscalationEmail(ticket, decision) ==
    LET known == {"technical", "billing", "management", "legal", "security"}
        tmpl  == IF decision.escalation_type \in known
                 THEN decision.escalation_type ELSE "technical"
        urgent == IF decision.priority_level = "urgent"
                  THEN " This has been marked as urgent and will be prioritized accordingly."
                  ELSE ""
    IN  "Subject: Re: ... Thank you for reaching out to us. [" \o tmpl \o "]" \o urgent
        \o " Your ticket reference number is: " \o IdOr(ticket, "TKT-<timestamp>")
        \o " Best regards, Customer Support Team Technical Support Division"

\* ResolutionAgent._generate_escalation_response
GenerateEscalationResponse(ticket, decision) ==
    [ticket_id |-> IdOr(ticket, "generated"),
     response |-> EscalationEmail(ticket, decision),
     confidence |-> 90,
     knowledge_articles_used |-> << >>,
     agent_type |-> "escalation"]

\* ResolutionAgent._generate_ai_resolution (the generation advisor answered)
GenerateAiResolution(ticket, results, b) ==
    [ticket_id |-> IdOr(ticket, "generated"),
     response |-> b.branch.value.response,
     confidence |-> b.branch.value.confidence,
     knowledge_articles_used |->
         [k \in 1..Len(Take(results, 3)) |-> results[k].article_id],
     agent_type |-> "ai"]

\* ResolutionAgent._get_fallback_response
FallbackResponse ==
    "Subject: Re: ... Thank you for contacting us. ... A team member will contact you shortly to assist with your inquiry. ... Best regards, Customer Support Team"

\* ResolutionAgent.generate_resolution: the generation advisor's error is caught
\* inside the agent
GenerateResolution(ticket, results, decision, b) ==
    IF decision.should_escalate
    THEN GenerateEscalationResponse(ticket, decision)
    ELSE IF b.branch.kind = "advisor_error"
         THEN [ticket_id |-> IdOr(ticket, "unknown"),
               response |-> FallbackResponse,
               confidence |-> 20,
               knowledge_articles_used |-> << >>,
               agent_type |-> "ai_fallback"]
         ELSE GenerateAiResolution(ticket, results, b)

-----------------------------------------------------------------------------
(* The workflow graph: CustomerSupportWorkflow *)

\* process_ticket: initial_state
InitialState(ticket) ==
    [ticket |-> ticket,
     classification |-> EmptyDict,
     knowledge_results |-> << >>,
     escalation_decision |-> EmptyDict,
     resolution |-> EmptyDict,
     workflow_status |-> "started",
     error_messages |-> << >>,
     metadata |-> [started_at |-> "2024-01-01T00:00:00"]]

\* (mutant of StatusAfter) check_escalation writes the status of classify
StatusAfterCopied(node) ==
    CASE node = "classify"            -> "classified"
      [] node = "search_knowledge"    -> "knowledge_searched"
      [] node = "check_escalation"    -> "classified"
      [] node = "generate_resolution" -> "resolved"
      [] node = "escalate_ticket"     -> "escalated"
      [] node = "finalize"            -> "completed"

\* The workflow_status each node writes when its try body succeeds
\* (finalize writes it unconditionally)
StatusAfter(node) ==
    CASE node = "classify"            -> "classified"
      [] node = "search_knowledge"    -> "knowledge_searched"
      [] node = "check_escalation"    -> "escalation_checked"
      [] node = "generate_resolution" -> "resolved"
      [] node = "escalate_ticket"     -> "escalated"
      [] node = "finalize"            -> "completed"

\* (mutant of Recover) the message replaces the list instead of joining it
RecoverOverwritingLog(st, prefix, key, dflt) ==
    [st EXCEPT !.error_messages = << prefix \o StageExcText >>,
               ![key] = dflt]

\* The except block every node shares: one message appended, the output key
\* set to the node's default; workflow_status is not written
Recover(st, prefix, key, dflt) ==
    [st EXCEPT !.error_messages = Append(@, prefix \o StageExcText),
               ![key] = dflt]

\* _classify_node
ClassifyNode(st, b) ==
    IF b.classify.kind = "stage_error"
    THEN Recover(st, "Classification failed: ", "classification",
                 [category |-> "general", priority |-> "medium", confidence |-> 30,
                  reasoning |-> "Classification failed: " \o StageExcText])
    ELSE LET r == ClassifyTicket(b)
         IN  [st EXCEPT
                !.classification =
                    [category |-> r.category, priority |-> r.priority,
                     confidence |-> r.confidence, reasoning |-> r.reasoning,
                     insights |-> [estimated_complexity |-> "medium"]],
                !.workflow_status = StatusAfter("classify")]

\* _search_knowledge_node
SearchKnowledgeNode(st, b) ==
    IF b.search.kind = "stage_error"
    THEN Recover(st, "Knowledge search failed: ", "knowledge_results", << >>)
    ELSE LET results == SearchKnowledgeBase(b)
         IN  [st EXCEPT
                !.knowledge_results = results,
                !.metadata = SetKey(@, "search_summary", GetArticleSummary(results)),
                !.workflow_status = StatusAfter("search_knowledge")]

\* _check_escalation_node
CheckEscalationNode(st, b) ==
    IF b.check.kind = "stage_error"
    THEN Recover(st, "Escalation check failed: ", "escalation_decision",
                 [should_escalate |-> TRUE,
                  reason |-> "Escalation check failed: " \o StageExcText,
                  escalation_type |-> "technical", priority_level |-> "standard",
                  confidence |-> 30])
    ELSE LET d == EvaluateEscalation(b)
         IN  [st EXCEPT
                !.escalation_decision = SetKey(d, "routing", GetEscalationRouting(d)),
                !.workflow_status = StatusAfter("check_escalation")]

\* The resolution dict a branch node stores from the agent's Resolution
ResolutionDict(r) == SetKey(r, "created_at", "<now>")

\* _generate_resolution_node
GenerateResolutionNode(st, b) ==
    IF b.branch.kind = "stage_error"
    THEN Recover(st, "Resolution generation failed: ", "resolution",
                 [ticket_id |-> IdOr(st.ticket, "unknown"),
                  response |-> "I apologize, but I'm experiencing technical difficulties. A human agent will assist you shortly.",
                  confidence |-> 10,
                  knowledge_articles_used |-> << >>,
                  agent_type |-> "fallback"])
    ELSE [st EXCEPT
            !.resolution = ResolutionDict(
                GenerateResolution(st.ticket, st.knowledge_results,
                                   st.escalation_decision, b)),
            !.workflow_status = StatusAfter("generate_resolution")]

\* _escalate_ticket_node
EscalateTicketNode(st, b) ==
    IF b.branch.kind = "stage_error"
    THEN Recover(st, "Escalation failed: ", "resolution",
                 [ticket_id |-> IdOr(st.ticket, "unknown"),
                  response |-> "Your request has been escalated to our specialist team. Someone will contact you shortly.",
                  confidence |-> 80,
                  knowledge_articles_used |-> << >>,
                  agent_type |-> "escalation_fallback"])
    ELSE [st EXCEPT
            !.resolution = ResolutionDict(
                GenerateEscalationResponse(st.ticket, st.escalation_decision)),
            !.workflow_status = StatusAfter("escalate_ticket")]

\* _finalize_node
FinalizeNode(st) ==
    [st EXCEPT
        !.workflow_status = StatusAfter("finalize"),
        !.metadata = SetKey(SetKey(@, "completed_at", "2024-01-01T00:00:00"),
                            "total_errors", Len(st.error_messages))]

\* (mutant of ShouldEscalate) the two route names swapped
ShouldEscalateSwapped(st) ==
    IF Get(st.escalation_decision, "should_escalate", FALSE)
    THEN "resolve" ELSE "escalate"

\* _should_escalate
ShouldEscalate(st) ==
    IF Get(st.escalation_decision, "should_escalate", FALSE)
    THEN "escalate" ELSE "resolve"

\* (mutant of NextNode) the edge escalate_ticket -> finalize left out
NextNodeMissingEdge(node, st) ==
    CASE node = "classify"            -> "search_knowledge"
      [] node = "search_knowledge"    -> "check_escalation"
      [] node = "check_escalation"    ->
            IF Get(st.escalation_decision, "should_escalate", FALSE)
            THEN "escalate_ticket" ELSE "generate_resolution"
      [] node = "generate_resolution" -> "finalize"
      [] node = "escalate_ticket"     -> "END"
      [] node = "finalize"            -> "END"

\* _build_workflow: the edges; "END" after finalize
NextNode(node, st) ==
    CASE node = "classify"            -> "search_knowledge"
      [] node = "search_knowledge"    -> "check_escalation"
      [] node = "check_escalation"    ->
            IF ShouldEscalate(st) = "escalate"
            THEN "escalate_ticket" ELSE "generate_resolution"
      [] node = "generate_resolution" -> "finalize"
      [] node = "escalate_ticket"     -> "finalize"
      [] node = "finalize"            -> "END"

\* (mutant of FailedState) the failed dict without its resolution
FailedStateBare(ticket, exc) ==
    [ticket |-> ticket,
     workflow_status |-> "failed",
     error_messages |-> << "Workflow execution failed: " \o exc >>]

\* process_ticket: the dict its except block returns
FailedState(ticket, exc) ==
    [ticket |-> ticket,
     workflow_status |-> "failed",
     error_messages |-> << "Workflow execution failed: " \o exc >>,
     resolution |->
        [response |-> "I apologize for the technical difficulty. Please contact our support team directly.",
         confidence |-> 10,
         agent_type |-> "error_fallback"]]

-----------------------------------------------------------------------------
(* process_batch *)

\* asyncio.Semaphore(3)
SemaphorePermits == 3

\* (mutant of CanAcquire) off by one: a permit is taken at zero too
CanAcquireAtZero(value) == value >= 0

\* Semaphore.acquire returns at once iff a permit is free
CanAcquire(value) == value > 0

\* (mutant of Released) the permit is not given back
ReleasedLeak(value) == value

\* The permits after `async with semaphore` is left, by return or by exception
Released(value) == value + 1

NotReturned == [pending |-> TRUE]

Raised(text) == [exception |-> text]

IsException(r) == HasKey(r, "exception")

IsState(r) == HasKey(r, "workflow_status")

\* (mutant of ReturnExceptions) gather's default
ReturnExceptionsDefault == FALSE

\* asyncio.gather(..., return_exceptions=True)
ReturnExceptions == TRUE

\* asyncio.gather ends when every awaitable has ended; without
\* return_exceptions it ends as soon as one of them raises
GatherDone(pcs, results) ==
    \/ \A i \in DOMAIN pcs : pcs[i] = "done"
    \/ ~ReturnExceptions /\ \E i \in DOMAIN results : IsException(results[i])

\* asyncio.gather raises the first exception unless return_exceptions is set
GatherRaises(results) ==
    ~ReturnExceptions /\ \E i \in DOMAIN results : IsException(results[i])

\* (mutant of Gather) the results in the order in which the runs ended
GatherAsCompleted(results, order) ==
    [k \in 1..Len(order) |-> results[order[k]]]

\* asyncio.gather: the results in the order of the awaitables, whatever the
\* order in which they ended
Gather(results, order) == results

\* process_batch: the loop over the gathered results
ProcessedResults(tks, results) ==
    [i \in 1..Len(results) |->
        IF IsException(results[i])
        THEN [ticket |-> tks[i],
              workflow_status |-> "failed",
              error_messages |-> << results[i].exception >>,
              resolution |->
                 [response |-> "Processing failed due to technical error.",
                  confidence |-> 10,
                  agent_type |-> "batch_error"]]
        ELSE results[i]]

-----------------------------------------------------------------------------
(* Actions *)

Runs == DOMAIN tickets

InGraph(i) == pc[i] \in Nodes

\* A run leaves process_ticket with outcome r: inside a batch the permit is
\* released and the task is done
EndRun(i, r) ==
    /\ result' = [result EXCEPT ![i] = r]
    /\ pc' = [pc EXCEPT ![i] = "done"]
    /\ IF batch_pc # "none"
       THEN /\ sem_value' = Released(sem_value)
            /\ done_order' = Append(done_order, i)
       ELSE UNCHANGED <<sem_value, done_order>>
    /\ UNCHANGED <<tickets, behaviour, batch_pc, batch_result, store>>

\* The graph executor runs node `node` of run i, leaving state st
RunNode(i, node, st) ==
    /\ pc[i] = node
    /\ behaviour[i].executor # node
    /\ state' = [state EXCEPT ![i] = st]
    /\ executed' = [executed EXCEPT ![i] = Append(@, node)]

Continue(i, node) ==
    /\ pc' = [pc EXCEPT ![i] = NextNode(node, state'[i])]
    /\ UNCHANGED <<tickets, behaviour, result, batch_vars>>

Classify(i) ==
    /\ RunNode(i, "classify", ClassifyNode(state[i], behaviour[i]))
    /\ Continue(i, "classify")

SearchKnowledge(i) ==
    /\ RunNode(i, "search_knowledge", SearchKnowledgeNode(state[i], behaviour[i]))
    /\ Continue(i, "search_knowledge")

CheckEscalation(i) ==
    /\ RunNode(i, "check_escalation", CheckEscalationNode(state[i], behaviour[i]))
    /\ Continue(i, "check_escalation")

GenerateResolutionStep(i) ==
    /\ RunNode(i, "generate_resolution",
               GenerateResolutionNode(state[i], behaviour[i]))
    /\ Continue(i, "generate_resolution")

EscalateTicket(i) ==
    /\ RunNode(i, "escalate_ticket", EscalateTicketNode(state[i], behaviour[i]))
    /\ Continue(i, "escalate_ticket")

\* finalize, END, and process_ticket returns dict(final_state)
Finalize(i) ==
    /\ RunNode(i, "finalize", FinalizeNode(state[i]))
    /\ NextNode("finalize", state'[i]) = "END"
    /\ EndRun(i, state'[i])

\* ainvoke raises; process_ticket's except block returns the failed dict
ExecutorFails(i) ==
    /\ InGraph(i)
    /\ behaviour[i].executor = pc[i]
    /\ ~behaviour[i].handler_raises
    /\ EndRun(i, FailedState(tickets[i], ExecutorExcText))
    /\ UNCHANGED <<state, executed>>

\* ainvoke raises and process_ticket's except block raises in turn: the
\* exception leaves process_ticket
RunRaises(i) ==
    /\ InGraph(i)
    /\ behaviour[i].executor = pc[i]
    /\ behaviour[i].handler_raises
    /\ EndRun(i, Raised(EscapedExcText(tickets[i])))
    /\ UNCHANGED <<state, executed>>

\* process_with_semaphore: `async with semaphore`, then process_ticket builds
\* its initial state. Tasks reach the semaphore in list order and waiters are
\* woken first in, first out.
Acquire(i) ==
    /\ batch_pc = "gathering"
    /\ pc[i] = "waiting"
    /\ \A j \in Runs : j < i => pc[j] # "waiting"
    /\ CanAcquire(sem_value)
    /\ sem_value' = sem_value - 1
    /\ pc' = [pc EXCEPT ![i] = "classify"]
    /\ state' = [state EXCEPT ![i] = InitialState(tickets[i])]
    /\ UNCHANGED <<tickets, behaviour, result, executed, done_order,
                   batch_pc, batch_result, store>>

\* gather ends; its results are post-processed and process_batch returns
\* (or the exception gather raised leaves process_batch)
BatchReturn ==
    /\ batch_pc = "gathering"
    /\ GatherDone(pc, result)
    /\ IF GatherRaises(result)
       THEN /\ batch_pc' = "raised"
            /\ UNCHANGED batch_result
       ELSE /\ batch_pc' = "returned"
            /\ batch_result' = ProcessedResults(tickets, Gather(result, done_order))
    /\ UNCHANGED <<tickets, behaviour, pc, state, result, executed,
                   sem_value, done_order, store>>

-----------------------------------------------------------------------------
(* Specifications *)

\* process_ticket(ticket), called directly
Init ==
    /\ tickets \in {<<t>> : t \in SingleTickets}
    /\ behaviour \in {<<b>> : b \in Behaviours}
    /\ pc = <<"classify">>
    /\ state = <<InitialState(tickets[1])>>
    /\ result = <<NotReturned>>
    /\ executed = << << >> >>
    /\ sem_value = 0
    /\ done_order = << >>
    /\ batch_pc = "none"
    /\ batch_result = << >>
    /\ store = << >>

Next ==
    \/ \E i \in Runs : Classify(i)
    \/ \E i \in Runs : SearchKnowledge(i)
    \/ \E i \in Runs : CheckEscalation(i)
    \/ \E i \in Runs : GenerateResolutionStep(i)
    \/ \E i \in Runs : EscalateTicket(i)
    \/ \E i \in Runs : Finalize(i)
    \/ \E i \in Runs : ExecutorFails(i)

Spec == Init /\ [][Next]_vars

\* The event loop keeps running whatever can run
FairSpec == Spec /\ WF_vars(Next)

\* process_batch(tickets)
InitBatch ==
    /\ \E n \in 0..MaxBatch :
          /\ tickets = [i \in 1..n |-> BatchTicket(i)]
          /\ behaviour \in BatchScripts(n)
          /\ pc = [i \in 1..n |-> "waiting"]
          /\ state = [i \in 1..n |-> EmptyDict]
          /\ result = [i \in 1..n |-> NotReturned]
          /\ executed = [i \in 1..n |-> << >>]
    /\ sem_value = SemaphorePermits
    /\ done_order = << >>
    /\ batch_pc = "gathering"
    /\ batch_result = << >>
    /\ store = << >>

\* One step of run i inside a batch
RunStep(i) ==
    \/ Acquire(i)
    \/ Classify(i)
    \/ SearchKnowledge(i)
    \/ CheckEscalation(i)
    \/ GenerateResolutionStep(i)
    \/ EscalateTicket(i)
    \/ Finalize(i)
    \/ ExecutorFails(i)
    \/ RunRaises(i)

NextBatch ==
    \/ \E i \in Runs : Acquire(i)
    \/ \E i \in Runs : Classify(i)
    \/ \E i \in Runs : SearchKnowledge(i)
    \/ \E i \in Runs : CheckEscalation(i)
    \/ \E i \in Runs : GenerateResolutionStep(i)
    \/ \E i \in Runs : EscalateTicket(i)
    \/ \E i \in Runs : Finalize(i)
    \/ \E i \in Runs : ExecutorFails(i)
    \/ \E i \in Runs : RunRaises(i)
    \/ BatchReturn

SpecBatch == InitBatch /\ [][NextBatch]_vars

\* The event loop resumes every task that can run, and process_batch itself
FairSpecBatch ==
    /\ SpecBatch
    /\ \A i \in 1..MaxBatch : WF_vars(i \in Runs /\ RunStep(i))
    /\ WF_vars(BatchReturn)

-----------------------------------------------------------------------------
(* Vocabulary of the properties *)

Range(seq) == {seq[k] : k \in 1..Len(seq)}

\* What the behaviour b says of node `node`
NodeBehaviour(b, node) ==
    CASE node = "classify"         -> b.classify
      [] node = "search_knowledge" -> b.search
      [] node = "check_escalation" -> b.check
      [] node \in {"generate_resolution", "escalate_ticket"} -> b.branch
      [] OTHER -> [kind |-> "answer", value |-> EmptyDict]

\* Node `node` of run i raised inside its try body
StageRaisedIn(i, node) == NodeBehaviour(behaviour[i], node).kind = "stage_error"

\* Run i has returned to its caller with a state
Returned(i) == pc[i] = "done" /\ IsState(result[i])

\* This step is node pc[i] of run i running
NodeRuns(i) == pc[i] \in Nodes /\ executed'[i] # executed[i]

-----------------------------------------------------------------------------
(* C1 *)

\* The nodes of run i that raise in time: every failing node before finalize
FailedNodes(i) ==
    {n \in Range(executed[i]) : StageRaisedIn(i, n)}

\* C1: whatever subset of the stages classify, search_knowledge,
\* check_escalation and generate_resolution/escalate_ticket raises, a
\* process_ticket run (whose graph executor does not fail) eventually runs
\* finalize and returns with workflow_status = "completed".
C1_FinalizeAlwaysReached ==
    \A i \in {1} :
        (behaviour[i].executor = "ok")
            => <>( /\ Returned(i)
                   /\ result[i].workflow_status = "completed"
                   /\ executed[i][Len(executed[i])] = "finalize" )

\* C1 witness: a run in which all four stages before finalize raised has
\* completed.
C1_Witness ==
    \E i \in Runs :
        /\ Returned(i)
        /\ result[i].workflow_status = "completed"
        /\ Cardinality(FailedNodes(i)) = 4
        /\ "finalize" \in Range(executed[i])

-----------------------------------------------------------------------------
(* C2 *)

\* The branch node the stored decision of run i selects
BranchOf(i) ==
    IF state[i].escalation_decision.should_escalate
    THEN "escalate_ticket" ELSE "generate_resolution"

\* C2: the nodes of a run execute in the order classify, search_knowledge,
\* check_escalation, one branch node, finalize; the branch node is
\* escalate_ticket iff the decision check_escalation stored has
\* should_escalate = TRUE; no node runs twice, never both branch nodes; a run
\* that completed ran all five.
C2_StageOrder ==
    \A i \in Runs :
        LET e == executed[i]
        IN  /\ Len(e) <= 5
            /\ Len(e) >= 1 => e[1] = "classify"
            /\ Len(e) >= 2 => e[2] = "search_knowledge"
            /\ Len(e) >= 3 => e[3] = "check_escalation"
            /\ Len(e) >= 4 => e[4] = BranchOf(i)
            /\ Len(e) >= 5 => e[5] = "finalize"
            /\ (Returned(i) /\ result[i].workflow_status = "completed") => Len(e) = 5

\* C2 witness: a completed run whose advisor-made decision said escalate and
\* that ran escalate_ticket, not generate_resolution.
C2_Witness ==
    \E i \in Runs :
        /\ Returned(i)
        /\ result[i].workflow_status = "completed"
        /\ behaviour[i].check.kind = "answer"
        /\ state[i].escalation_decision.should_escalate
        /\ "escalate_ticket" \in Range(executed[i])
        /\ "generate_resolution" \notin Range(executed[i])

-----------------------------------------------------------------------------
(* C3 *)

\* The conservative default of node `node`, as the claim states it, in state st
HasDefaultOutput(node, st) ==
    CASE node = "classify" ->
            /\ st.classification.category = "general"
            /\ st.classification.priority = "medium"
            /\ st.classification.confidence = 30
      [] node = "search_knowledge" ->
            st.knowledge_results = << >>
      [] node = "check_escalation" ->
            /\ st.escalation_decision.should_escalate = TRUE
            /\ st.escalation_decision.escalation_type = "technical"
            /\ st.escalation_decision.priority_level = "standard"
            /\ st.escalation_decision.confidence = 30
      [] node = "generate_resolution" ->
            st.resolution.response =
                "I apologize, but I'm experiencing technical difficulties. A human agent will assist you shortly."
      [] node = "escalate_ticket" ->
            st.resolution.response =
                "Your request has been escalated to our specialist team. Someone will contact you shortly."
      [] OTHER -> FALSE

\* A step in which a node of run i raises: one message more, the earlier ones
\* kept in order, the default stored, a later node next (escalate_ticket after
\* check_escalation)
C3_RaisingStep(i) ==
    (NodeRuns(i) /\ StageRaisedIn(i, pc[i])) =>
        LET old == state[i].error_messages
            new == state'[i].error_messages
        IN  /\ Len(new) = Len(old) + 1
            /\ SubSeq(new, 1, Len(old)) = old
            /\ HasDefaultOutput(pc[i], state'[i])
            /\ pc'[i] \in Nodes
            /\ pc[i] = "check_escalation" => pc'[i] = "escalate_ticket"

\* C3: when a node raises, exactly one message is appended to error_messages
\* and the earlier ones are kept in order, the node's output is its
\* conservative default, and the later nodes run on that default (it is still
\* there in every later state); a raising check_escalation leads to
\* escalate_ticket.
C3_StageFailureRecovered ==
    /\ [][\A i \in Runs : C3_RaisingStep(i)]_vars
    /\ [](\A i \in Runs : \A n \in FailedNodes(i) : HasDefaultOutput(n, state[i]))
    /\ [](\A i \in Runs :
            Len(state[i].error_messages) = Cardinality(FailedNodes(i)))

\* C3 witness: check_escalation raised after classify and search_knowledge
\* had raised too, and the run is about to escalate.
C3_Witness ==
    \E i \in Runs :
        /\ pc[i] = "escalate_ticket"
        /\ FailedNodes(i) = {"classify", "search_knowledge", "check_escalation"}
        /\ Len(state[i].error_messages) = 3

-----------------------------------------------------------------------------
(* C4 *)

\* C4: process_ticket does not raise, whatever the advisors, the knowledge
\* store and the graph executor do: it returns a state whose workflow_status
\* is "completed" or "failed" and whose resolution has a non-empty response.
C4_AlwaysReturnsAResolution ==
    \A i \in Runs :
        pc[i] = "done" =>
            /\ IsState(result[i])
            /\ result[i].workflow_status \in {"completed", "failed"}
            /\ HasKey(result[i], "resolution")
            /\ HasKey(result[i].resolution, "response")
            /\ result[i].resolution.response # ""

\* C4 witness: the graph executor failed and the caller got the failed state
\* with the fallback message.
C4_Witness ==
    \E i \in Runs :
        /\ Returned(i)
        /\ result[i].workflow_status = "failed"
        /\ result[i].resolution.agent_type = "error_fallback"
        /\ result[i].resolution.response # ""

-----------------------------------------------------------------------------
(* C5 *)

\* The advisor calls of run i that raised: the classification advisor in
\* classify, the escalation advisor in check_escalation, the generation
\* advisor in generate_resolution
ErroredAdvisorNodes(i) ==
    {n \in Range(executed[i]) \cap {"classify", "check_escalation", "generate_resolution"} :
        NodeBehaviour(behaviour[i], n).kind = "advisor_error"}

\* A message of the error list that reports the failure of node n's advisor
LogsAdvisorFailure(msgs, n) ==
    \E k \in 1..Len(msgs) :
        msgs[k] = (CASE n = "classify"            -> "Classification failed: "
                     [] n = "check_escalation"    -> "Escalation check failed: "
                     [] n = "generate_resolution" -> "Resolution generation failed: ")
                  \o AdvisorExcText

\* C5: when an advisor call of a run errors, the run still completes and the
\* returned state logs it: error_messages has an entry for that failure and
\* the error count finalize records is at least 1.
C5_AdvisorFailureLogged ==
    \A i \in Runs :
        (Returned(i) /\ result[i].workflow_status = "completed") =>
            \A n \in ErroredAdvisorNodes(i) :
                /\ LogsAdvisorFailure(result[i].error_messages, n)
                /\ result[i].metadata.total_errors >= 1

-----------------------------------------------------------------------------
(* C6 *)

StatusRank(status) ==
    CASE status = "started"            -> 0
      [] status = "classified"         -> 1
      [] status = "knowledge_searched" -> 2
      [] status = "escalation_checked" -> 3
      [] status \in {"resolved", "escalated"} -> 4
      [] status = "completed"          -> 5
      [] OTHER -> -1

\* One step of run i: the status of the state the graph works on stays or
\* moves to a later rank, a raising node leaves it as it was, and nothing of a
\* run that was returned as failed changes
C6_Step(i) ==
    LET old == state[i].workflow_status
        new == state'[i].workflow_status
    IN  /\ StatusRank(new) >= 0
        /\ new # old => StatusRank(new) > StatusRank(old)
        /\ (NodeRuns(i) /\ StageRaisedIn(i, pc[i])) => new = old
        /\ (IsState(result[i]) /\ result[i].workflow_status = "failed") =>
              /\ result'[i] = result[i]
              /\ state'[i] = state[i]
              /\ executed'[i] = executed[i]

\* C6: within a run workflow_status only moves forward in the order started <
\* classified < knowledge_searched < escalation_checked < {resolved,
\* escalated} < completed; a raising node does not move it; after the run has
\* been given the status failed no node writes to its state.
C6_StatusMonotonic ==
    [][\A i \in Runs : C6_Step(i)]_vars

\* C6 witness: a run whose status had moved to knowledge_searched was
\* returned as failed.
C6_Witness ==
    \E i \in Runs :
        /\ Returned(i)
        /\ result[i].workflow_status = "failed"
        /\ state[i].workflow_status = "knowledge_searched"

-----------------------------------------------------------------------------
(* C7 *)

\* C7: process_batch returns a list as long as its input whose i-th element
\* is the result of the i-th ticket's run (the state that run returned, or the
\* failed state standing for the exception it raised), in whatever order the
\* runs ended.
C7_BatchKeepsInputOrder ==
    batch_pc = "returned" =>
        /\ Len(batch_result) = Len(tickets)
        /\ \A i \in Runs :
              /\ IsState(batch_result[i])
              /\ batch_result[i].ticket = tickets[i]
              /\ IsState(result[i]) => batch_result[i] = result[i]

\* C7 witness: a batch of at least three returned although its last ticket's
\* run ended first.
C7_Witness ==
    /\ batch_pc = "returned"
    /\ Len(tickets) >= 3
    /\ done_order[1] = Len(tickets)
    /\ batch_result[1].ticket = tickets[1]

-----------------------------------------------------------------------------
(* C8 *)

\* The runs of the batch that have started process_ticket and not ended it
InFlight == {i \in Runs : pc[i] \in Nodes}

\* C8: at most 3 runs of a batch are in flight at any moment.
C8_AtMostThreeInFlight == Cardinality(InFlight) <= 3

\* C8 witness: three runs in flight while a fourth ticket waits at the gate.
C8_Witness ==
    /\ Cardinality(InFlight) = 3
    /\ \E i \in Runs : pc[i] = "waiting"

-----------------------------------------------------------------------------
(* C9 *)

\* C9: when the run of ticket i raises, process_batch does not raise:
\* position i of its result is a failed state with the exception text as its
\* only error message and ticket i as its ticket, and every other position
\* holds what that ticket's own run returned.
C9_RaisedRunBecomesFailedState ==
    /\ batch_pc # "raised"
    /\ batch_pc = "returned" =>
          \A i \in Runs :
              IsException(result[i]) =>
                  /\ batch_result[i].workflow_status = "failed"
                  /\ batch_result[i].error_messages = << result[i].exception >>
                  /\ batch_result[i].ticket = tickets[i]
                  /\ \A j \in Runs \ {i} :
                        IsState(result[j]) => batch_result[j] = result[j]

\* C9 witness: a batch returned in which one run raised and another one
\* completed.
C9_Witness ==
    /\ batch_pc = "returned"
    /\ \E i, j \in Runs :
          /\ IsException(result[i])
          /\ batch_result[i].resolution.agent_type = "batch_error"
          /\ IsState(result[j])
          /\ result[j].workflow_status = "completed"

-----------------------------------------------------------------------------
(* C10 *)

\* A run ends in this step
RunEnds(i) == pc[i] \in Nodes /\ pc'[i] = "done"

\* C10: every ticket of a batch is admitted and its run ends; the permit is
\* given back when a run ends, by return or by exception; process_batch
\* returns, and not before every run has ended, each run with its own outcome.
C10_BatchTerminates ==
    /\ \A i \in 1..MaxBatch : <>(i \in Runs => pc[i] = "done")
    /\ <>(batch_pc = "returned")
    /\ [][\A i \in Runs : RunEnds(i) => sem_value' = sem_value + 1]_vars
    /\ [](batch_pc # "gathering" =>
            /\ \A i \in Runs : pc[i] = "done" /\ result[i] # NotReturned
            /\ sem_value = 3)

\* C10 witness: a batch longer than the gate is wide returned after one of
\* its runs had raised.
C10_Witness ==
    /\ batch_pc = "returned"
    /\ Len(tickets) > 3
    /\ sem_value = 3
    /\ \E i \in Runs : IsException(result[i])

-----------------------------------------------------------------------------
(* Text: Python's str operations, on TLA+ strings *)

LowerChar(c) ==
    CASE c = "A" -> "a" [] c = "B" -> "b" [] c = "C" -> "c" [] c = "D" -> "d"
      [] c = "E" -> "e" [] c = "F" -> "f" [] c = "G" -> "g" [] c = "H" -> "h"
      [] c = "I" -> "i" [] c = "J" -> "j" [] c = "K" -> "k" [] c = "L" -> "l"
      [] c = "M" -> "m" [] c = "N" -> "n" [] c = "O" -> "o" [] c = "P" -> "p"
      [] c = "Q" -> "q" [] c = "R" -> "r" [] c = "S" -> "s" [] c = "T" -> "t"
      [] c = "U" -> "u" [] c = "V" -> "v" [] c = "W" -> "w" [] c = "X" -> "x"
      [] c = "Y" -> "y" [] c = "Z" -> "z" [] OTHER -> c

\* s.lower()
RECURSIVE Lower(_)
Lower(s) ==
    IF Len(s) = 0 THEN ""
    ELSE IF Len(s) = 1 THEN LowerChar(s)
    ELSE Lower(SubSeq(s, 1, Len(s) \div 2))
            \o Lower(SubSeq(s, (Len(s) \div 2) + 1, Len(s)))

\* k in s
In(k, s) ==
    \E i \in 1..(Len(s) - Len(k) + 1) : SubSeq(s, i, i + Len(k) - 1) = k

\* s.startswith(p)
StartsWith(s, p) == Len(p) <= Len(s) /\ SubSeq(s, 1, Len(p)) = p

\* s.endswith(p)
EndsWith(s, p) == Len(p) <= Len(s) /\ SubSeq(s, Len(s) - Len(p) + 1, Len(s)) = p

\* any(k in text for k in keywords)
AnyIn(keywords, text) == \E k \in keywords : In(k, text)

\* f"{ticket.subject} {ticket.message}".lower()
FullText(ticket) == Lower(ticket.subject \o " " \o ticket.message)

\* min(a, b)
Min2(a, b) == IF a <= b THEN a ELSE b

-----------------------------------------------------------------------------
(* Tickets handed to the engines *)

EngineTicket(id, name, subject, message) ==
    [id |-> id, customer_name |-> name, subject |-> subject, message |-> message]

EngineTickets ==
    { EngineTicket("TKT-7", "Ada Lovelace", "breach",
                   "There is a charge on my card that I did not make"),
      EngineTicket(NoId, "", "Cannot log in",
                   "I tried resetting my password three times, still not working, very frustrated and angry"),
      EngineTicket("TKT-9", "Grace", "Refund request",
                   "My payment failed twice and I want a refund"),
      EngineTicket(NoId, "", "Possible PHISHING email",
                   "I received a strange email about an invoice asking for my password"),
      EngineTicket("TKT-11", "", "Export",
                   "Where can I find the export option for my reports"),
      EngineTicket("TKT-12", "Alan Turing", "App crash",
                   "The app shows an error on start and the bug is still there"),
      EngineTicket("TKT-13", "Edsger", "Refund now",
                   "My payment failed again, I am angry and frustrated, give me a refund"),
      EngineTicket("TKT-14", "", "Sync",
                   "The sync stopped and it happened again today"),
      EngineTicket(NoId, "Barbara Liskov", "Data request",
                   "My lawyer asked for a copy of my data"),
      EngineTicket("TKT-15", " ", "Invoice",
                   "Please send me the invoice for March"),
      EngineTicket("TKT-16", "Ada Lovelace", "Records",
                   "My attorney told me to ask you for the records of my account") }

-----------------------------------------------------------------------------
(* The classification engine: ClassifierAgent over GeminiLLMService *)

\* settings.HIGH_PRIORITY_KEYWORDS
HIGH_PRIORITY_KEYWORDS ==
    {"urgent", "critical", "down", "broken", "error", "bug",
     "payment", "billing", "security", "hack", "breach"}

TicketCategories == {"technical", "billing", "general", "product", "account"}

TicketPriorities == {"low", "medium", "high", "critical"}

\* What the classification advisor does: it answers with a JSON object, it
\* answers with text that is not JSON, or the call raises
AdvisedClassifications ==
    [ category : TicketCategories \cup {"shipping"},
      priority : TicketPriorities,
      confidence : {0, 60, 85, 100},
      reasoning : {"advised"} ]
    \cup { EmptyDict, [category |-> "billing"], [priority |-> "low", confidence |-> 100] }

ClassifyAdvisories ==
    { [kind |-> "answer", value |-> d] : d \in AdvisedClassifications }
    \cup { [kind |-> k, value |-> EmptyDict] : k \in {"unparseable", "error"} }

\* GeminiLLMService.classify_ticket: the dict it returns, or the exception of
\* generate_response
LlmClassifyTicket(adv) ==
    CASE adv.kind = "error" -> Raised(AdvisorExcText)
      [] adv.kind = "unparseable" ->
            [category |-> "general", priority |-> "medium", confidence |-> 50,
             reasoning |-> "Unable to parse LLM response"]
      [] OTHER -> adv.value

\* ClassifierAgent._priority_level
PriorityLevel(priority) ==
    LET p == Lower(priority)
    IN  CASE p = "low" -> 1 [] p = "medium" -> 2 [] p = "high" -> 3
          [] p = "critical" -> 4 [] OTHER -> 2

\* _apply_classification_rules: high priority keywords
HighPriorityRule(text, r) ==
    IF AnyIn({Lower(k) : k \in HIGH_PRIORITY_KEYWORDS}, text)
       /\ r.priority \in {"low", "medium"}
    THEN [r EXCEPT !.priority = "high",
                   !.confidence = Min2(r.confidence + 20, 100),
                   !.reasoning = @ \o " (Elevated due to urgent keywords)"]
    ELSE r

\* _apply_classification_rules: category_priority_rules
CategoryPriorityRules ==
    [ billing   |-> [keywords |-> {"payment", "charge", "bill", "invoice"},
                     min_priority |-> "medium"],
      technical |-> [keywords |-> {"bug", "error", "crash", "broken"},
                     min_priority |-> "medium"] ]

\* _apply_classification_rules: category-specific priority adjustments
CategoryMinimumRule(text, r) ==
    IF HasKey(CategoryPriorityRules, r.category)
    THEN LET rules == CategoryPriorityRules[r.category]
         IN  IF AnyIn(rules.keywords, text)
                /\ PriorityLevel(r.priority) < PriorityLevel(rules.min_priority)
             THEN [r EXCEPT !.priority = rules.min_priority,
                            !.reasoning = @ \o " (Elevated for " \o r.category
                                            \o " category)"]
             ELSE r
    ELSE r

\* _apply_classification_rules: security_keywords
SecurityKeywords == {"hack", "breach", "security", "fraud", "phishing"}

\* A security rule that raises the priority and leaves the category alone
SecurityRuleKeepsCategory(text, r) ==
    IF AnyIn(SecurityKeywords, text)
    THEN [r EXCEPT !.priority = "critical",
                   !.confidence = Min2(r.confidence + 30, 100),
                   !.reasoning = @ \o " (Security issue detected)"]
    ELSE r

\* _apply_classification_rules: security/breach detection
SecurityRule(text, r) ==
    IF AnyIn(SecurityKeywords, text)
    THEN [r EXCEPT !.priority = "critical",
                   !.category = "technical",
                   !.confidence = Min2(r.confidence + 30, 100),
                   !.reasoning = @ \o " (Security issue detected)"]
    ELSE r

\* ClassifierAgent._apply_classification_rules
ApplyClassificationRules(ticket, llm_result) ==
    LET text == FullText(ticket)
        r0 == [category   |-> Get(llm_result, "category", "general"),
               priority   |-> Get(llm_result, "priority", "medium"),
               confidence |-> Get(llm_result, "confidence", 50),
               reasoning  |-> Get(llm_result, "reasoning", "")]
    IN  SecurityRule(text, CategoryMinimumRule(text, HighPriorityRule(text, r0)))

\* ClassificationResult(...): TicketCategory(...), TicketPriority(...) and the
\* bounds of confidence accept the values
ValidClassification(r) ==
    /\ r.category \in TicketCategories
    /\ r.priority \in TicketPriorities
    /\ r.confidence >= 0
    /\ r.confidence <= 100

\* ClassifierAgent.classify_ticket: the except block
ClassificationFallback(text) ==
    [category |-> "general", priority |-> "medium", confidence |-> 30,
     reasoning |-> "Classification failed: " \o text]

\* ClassifierAgent.classify_ticket, with the advisor's outcome adv
ClassifierClassify(ticket, adv) ==
    LET llm_result == LlmClassifyTicket(adv)
    IN  IF IsException(llm_result)
        THEN ClassificationFallback(llm_result.exception)
        ELSE LET adjusted_result == ApplyClassificationRules(ticket, llm_result)
             IN  IF ValidClassification(adjusted_result)
                 THEN adjusted_result
                 ELSE ClassificationFallback("value is not a valid enumeration member")

\* The engines called on their own: one call, its arguments in tickets[1],
\* state[1] and behaviour[1], what it returned in result[1]
EngineInit(ts, contexts, advisories, call) ==
    /\ tickets \in {<<t>> : t \in ts}
    /\ state \in {<<c>> : c \in contexts}
    /\ behaviour \in {<<a>> : a \in advisories}
    /\ pc = <<call>>
    /\ result = <<NotReturned>>
    /\ executed = << << >> >>
    /\ sem_value = 0
    /\ done_order = << >>
    /\ batch_pc = "none"
    /\ batch_result = << >>
    /\ store = << >>

EngineReturn(call, value) ==
    /\ pc[1] = call
    /\ pc' = <<"done">>
    /\ result' = <<value>>
    /\ UNCHANGED <<tickets, behaviour, state, executed, batch_vars>>

InitClassify ==
    EngineInit(EngineTickets, {EmptyDict}, ClassifyAdvisories, "classify_ticket")

ClassifyTicketCall ==
    EngineReturn("classify_ticket", ClassifierClassify(tickets[1], behaviour[1]))

NextClassify == ClassifyTicketCall

SpecClassify == InitClassify /\ [][NextClassify]_vars

-----------------------------------------------------------------------------
(* C11 *)

\* The call of the engine has returned
Called == pc[1] = "done"

\* The advisor supplied a classification: it answered, or llm_service put its
\* own in place of an answer it could not parse
AdvisorySupplied == behaviour[1].kind \in {"answer", "unparseable"}

\* C11: for every ticket whose lower-cased subject and body contain one of
\* hack, breach, security, fraud, phishing, classify returns category
\* technical and priority critical, whatever category and priority the
\* advisory supplied and whatever the keyword and category rules did before.
C11_SecurityRuleWins ==
    (Called /\ AdvisorySupplied /\ AnyIn(SecurityKeywords, FullText(tickets[1])))
        => /\ result[1].category = "technical"
           /\ result[1].priority = "critical"

\* C11 witness: a keyword written in capitals, in a ticket advised billing and
\* low whose priority the category rule had raised to medium first.
C11_Witness ==
    /\ Called
    /\ behaviour[1].kind = "answer"
    /\ tickets[1].subject = "Possible PHISHING email"
    /\ Get(behaviour[1].value, "category", "") = "billing"
    /\ Get(behaviour[1].value, "priority", "") = "low"
    /\ In("(Elevated for billing category)", result[1].reasoning)
    /\ result[1].category = "technical"
    /\ result[1].priority = "critical"

-----------------------------------------------------------------------------
(* C12 *)

\* The classification advisor failed: the call raised, or its answer could
\* not be parsed
ClassifyAdvisorFailed == behaviour[1].kind \in {"error", "unparseable"}

\* C12: classify never raises, and whenever the classification advisor fails
\* (the call errors or its response is not parseable) the result is exactly
\* category general, priority medium, confidence 0.3, with a reasoning that
\* records the failure.
C12_ClassifyFailureDefaults ==
    Called =>
        /\ ~IsException(result[1])
        /\ ClassifyAdvisorFailed =>
              /\ result[1].category = "general"
              /\ result[1].priority = "medium"
              /\ result[1].confidence = 30
              /\ \/ In("failed", result[1].reasoning)
                 \/ In("Unable to parse", result[1].reasoning)

-----------------------------------------------------------------------------
(* The escalation engine: EscalationAgent over GeminiLLMService *)

\* settings.ESCALATION_KEYWORDS
ESCALATION_KEYWORDS ==
    {"manager", "supervisor", "complain", "angry", "frustrated",
     "legal", "lawsuit", "refund", "cancel", "unsubscribe"}

\* (mutant of SecurityLegalKeywords) the list without its legal half
SecurityLegalKeywordsSecurityOnly == {"hack", "breach", "fraud", "scam", "theft"}

\* _apply_escalation_rules: security_legal_keywords
SecurityLegalKeywords ==
    {"legal", "lawsuit", "lawyer", "attorney", "court",
     "hack", "breach", "fraud", "scam", "theft"}

\* _apply_escalation_rules: the keywords that make rule 3 a legal matter
LegalKeywords == {"legal", "lawsuit", "lawyer"}

\* _apply_escalation_rules: billing_high_value_keywords
BillingHighValueKeywords ==
    {"refund", "cancel", "subscription", "charge", "payment failed"}

\* _apply_escalation_rules: frustration_keywords
FrustrationKeywords ==
    {"angry", "frustrated", "disappointed", "terrible", "worst",
     "unacceptable", "ridiculous", "pathetic", "hate"}

\* _apply_escalation_rules: retry_indicators
RetryIndicators ==
    {"tried multiple times", "several attempts", "contacted before",
     "still not working", "again", "repeatedly"}

\* _apply_escalation_rules: frustration_count
FrustrationCount(text) == Cardinality({k \in FrustrationKeywords : In(k, text)})

\* A frustration rule that needs more than two keywords
FrustratedStrictly(text) == FrustrationCount(text) > 2

\* _apply_escalation_rules: frustration_count >= 2
Frustrated(text) == FrustrationCount(text) >= 2

\* _apply_escalation_rules: the condition of rule n
RuleFires(n, text, classification, search_results) ==
    CASE n = 1 -> classification.priority = "critical"
      [] n = 2 -> AnyIn({Lower(k) : k \in ESCALATION_KEYWORDS}, text)
      [] n = 3 -> AnyIn(SecurityLegalKeywords, text)
      [] n = 4 -> /\ classification.category = "technical"
                  /\ classification.priority \in {"high", "critical"}
                  /\ (search_results = << >> \/ search_results[1].score < 60)
      [] n = 5 -> /\ classification.category = "billing"
                  /\ AnyIn(BillingHighValueKeywords, text)
      [] n = 6 -> Frustrated(text)
      [] n = 7 -> AnyIn(RetryIndicators, text)

\* _apply_escalation_rules: what rule n does to the decision when it fires
RuleEffect(n, text, d) ==
    LET e == [d EXCEPT !.should_escalate = TRUE]
    IN  CASE n = 1 -> [e EXCEPT !.reasons = Append(@, "Critical priority ticket"),
                                !.priority_level = "urgent",
                                !.escalation_type = "technical"]
          [] n = 2 -> [e EXCEPT !.reasons = Append(@, "Customer requesting escalation"),
                                !.escalation_type = "management"]
          [] n = 3 -> [e EXCEPT !.reasons = Append(@, "Security or legal concern"),
                                !.priority_level = "urgent",
                                !.escalation_type =
                                    IF AnyIn(LegalKeywords, text)
                                    THEN "legal" ELSE "security"]
          [] n = 4 -> [e EXCEPT !.reasons =
                                    Append(@, "Complex technical issue with no clear solution"),
                                !.escalation_type = "technical"]
          [] n = 5 -> [e EXCEPT !.reasons = Append(@, "High-impact billing issue"),
                                !.escalation_type = "billing"]
          [] n = 6 -> [e EXCEPT !.reasons = Append(@, "Customer showing high frustration"),
                                !.escalation_type = "management"]
          [] n = 7 -> [e EXCEPT !.reasons =
                                    Append(@, "Multiple failed resolution attempts")]

\* _apply_escalation_rules: rules 1..n applied in order
RECURSIVE RulesUpTo(_, _, _, _)
RulesUpTo(n, text, classification, search_results) ==
    IF n = 0
    THEN [should_escalate |-> FALSE, reasons |-> << >>,
          escalation_type |-> "general", priority_level |-> "standard"]
    ELSE LET d == RulesUpTo(n - 1, text, classification, search_results)
         IN  IF RuleFires(n, text, classification, search_results)
             THEN RuleEffect(n, text, d)
             ELSE d

\* "; ".join(parts)
RECURSIVE Join(_, _)
Join(parts, sep) ==
    IF Len(parts) = 0 THEN ""
    ELSE IF Len(parts) = 1 THEN parts[1]
    ELSE parts[1] \o sep \o Join(Tail(parts), sep)

\* _apply_escalation_rules: confidence based on rule strength
RuleConfidence(reasons) ==
    IF Len(reasons) > 2 THEN 90
    ELSE IF Len(reasons) = 2 THEN 80
    ELSE IF Len(reasons) = 1 THEN 70
    ELSE 50

\* EscalationAgent._apply_escalation_rules
ApplyEscalationRules(ticket, classification, search_results) ==
    LET d == RulesUpTo(7, FullText(ticket), classification, search_results)
    IN  [should_escalate |-> d.should_escalate,
         reason |-> IF d.reasons # << >> THEN Join(d.reasons, "; ")
                    ELSE "No escalation needed",
         escalation_type |-> d.escalation_type,
         priority_level |-> d.priority_level,
         confidence |-> RuleConfidence(d.reasons)]

\* What the escalation advisor answers: JSON null is the empty string;
\* confidences are even percents, so that the mean of two is a whole percent
AdvisedDecisions ==
    [ should_escalate : BOOLEAN,
      reason : {"advised"},
      escalation_type : {"", "billing", "management"},
      priority_level : {"standard", "urgent"},
      confidence : {0, 50, 86, 150} ]
    \cup { EmptyDict,
           [should_escalate |-> TRUE, reason |-> "", escalation_type |-> "security"] }

EscalationAdvisories ==
    { [kind |-> "answer", value |-> d] : d \in AdvisedDecisions }
    \cup { [kind |-> k, value |-> EmptyDict] : k \in {"unparseable", "error"} }

\* GeminiLLMService.check_escalation: the dict it returns, or the exception of
\* generate_response
LlmCheckEscalation(adv) ==
    CASE adv.kind = "error" -> Raised(AdvisorExcText)
      [] adv.kind = "unparseable" ->
            [should_escalate |-> FALSE,
             reason |-> "Unable to analyze escalation need",
             escalation_type |-> "",
             priority_level |-> "standard",
             confidence |-> 50]
      [] OTHER -> adv.value

\* Python's `a or b` on strings
StrOr(a, b) == IF a # "" THEN a ELSE b

\* _combine_decisions: priority_levels.get(p, 1)
PriorityLevelRank(p) == IF p = "urgent" THEN 2 ELSE 1

\* A combination that lets the rules have the last word on escalating
CombinedShouldEscalateRulesOnly(llm_decision, rule_decision) ==
    Get(rule_decision, "should_escalate", FALSE)

\* _combine_decisions: should_escalate
CombinedShouldEscalate(llm_decision, rule_decision) ==
    Get(llm_decision, "should_escalate", FALSE)
        \/ Get(rule_decision, "should_escalate", FALSE)

\* A combination that prefers the advisory's type to the rules'
CombinedEscalationTypeAdvisoryFirst(llm_decision, rule_decision) ==
    StrOr(Get(llm_decision, "escalation_type", ""),
          StrOr(Get(rule_decision, "escalation_type", ""), "general"))

\* _combine_decisions: escalation_type
CombinedEscalationType(llm_decision, rule_decision) ==
    StrOr(Get(rule_decision, "escalation_type", ""),
          StrOr(Get(llm_decision, "escalation_type", ""), "general"))

\* _combine_decisions: confidence
CombinedConfidence(llm_decision, rule_decision) ==
    (Get(rule_decision, "confidence", 50) + Get(llm_decision, "confidence", 50)) \div 2

\* EscalationAgent._combine_decisions
CombineDecisions(llm_decision, rule_decision) ==
    LET ai_reason == Get(llm_decision, "reason", "")
        rule_reason == Get(rule_decision, "reason", "")
        reasons ==
            (IF ai_reason # "" THEN <<"AI: " \o ai_reason>> ELSE << >>)
            \o (IF rule_reason # "" /\ rule_reason # "No escalation needed"
                THEN <<"Rules: " \o rule_reason>> ELSE << >>)
        rule_priority == Get(rule_decision, "priority_level", "standard")
        llm_priority == Get(llm_decision, "priority_level", "standard")
    IN  [should_escalate |-> CombinedShouldEscalate(llm_decision, rule_decision),
         reason |-> IF reasons # << >> THEN Join(reasons, "; ")
                    ELSE "No escalation needed",
         escalation_type |-> CombinedEscalationType(llm_decision, rule_decision),
         priority_level |->
             IF PriorityLevelRank(rule_priority) >= PriorityLevelRank(llm_priority)
             THEN rule_priority ELSE llm_priority,
         confidence |-> CombinedConfidence(llm_decision, rule_decision)]

\* EscalationAgent.evaluate_escalation: the except block
EscalationFallback(text) ==
    [should_escalate |-> TRUE,
     reason |-> "Escalation evaluation failed: " \o text,
     escalation_type |-> "technical",
     priority_level |-> "standard",
     confidence |-> 30]

\* EscalationAgent.evaluate_escalation, with the advisor's outcome adv
EvaluateEscalationOn(ticket, classification, search_results, adv) ==
    LET llm_decision == LlmCheckEscalation(adv)
    IN  IF IsException(llm_decision)
        THEN EscalationFallback(llm_decision.exception)
        ELSE CombineDecisions(llm_decision,
                 ApplyEscalationRules(ticket, classification, search_results))

\* The classifications and candidate lists evaluate is called with
EscalationContexts ==
    [ classification :
          [ category : {"technical", "billing", "account"},
            priority : {"medium", "high", "critical"},
            confidence : {60},
            reasoning : {"advised"} ],
      search_results :
          { << >>,
            << [article_id |-> "kb-1", score |-> 92] >>,
            << [article_id |-> "kb-2", score |-> 45],
               [article_id |-> "kb-3", score |-> 31] >> } ]

InitEscalation ==
    EngineInit(EngineTickets, EscalationContexts, EscalationAdvisories,
               "evaluate_escalation")

EvaluateEscalationCall ==
    EngineReturn("evaluate_escalation",
                 EvaluateEscalationOn(tickets[1], state[1].classification,
                                      state[1].search_results, behaviour[1]))

NextEscalation == EvaluateEscalationCall

SpecEscalation == InitEscalation /\ [][NextEscalation]_vars

-----------------------------------------------------------------------------
(* Vocabulary of the escalation properties *)

\* The arguments of the evaluate call
EvalText == FullText(tickets[1])

\* Rule n fires on the arguments of the call
Fired(n) ==
    RuleFires(n, EvalText, state[1].classification, state[1].search_results)

\* What the rules alone decide on the arguments of the call
RuleDecision ==
    ApplyEscalationRules(tickets[1], state[1].classification,
                         state[1].search_results)

\* The escalation advisor gave the engine a response to combine
AdvisoryAnswered == behaviour[1].kind \in {"answer", "unparseable"}

\* The response the engine combines with its rules
AdvisoryResponse == LlmCheckEscalation(behaviour[1])

-----------------------------------------------------------------------------
(* C13 *)

\* C13: evaluate never raises, and whenever the escalation advisor fails (the
\* call errors or its response is not parseable) the decision is the
\* fail-safe one: should_escalate true, type technical, priority_level
\* standard, confidence 0.3.
C13_EscalationFailureIsFailSafe ==
    Called =>
        /\ ~IsException(result[1])
        /\ behaviour[1].kind \in {"error", "unparseable"} =>
              /\ result[1].should_escalate
              /\ result[1].escalation_type = "technical"
              /\ result[1].priority_level = "standard"
              /\ result[1].confidence = 30

-----------------------------------------------------------------------------
(* C14 *)

\* C14: for every ticket, classification, candidate list and advisory
\* response, the combined decision escalates if and only if the advisory says
\* so or at least one of the rules 1..7 fired; the rules never turn an
\* advisory escalation into an automatic resolution.
C14_EscalateIffEitherSide ==
    (Called /\ AdvisoryAnswered) =>
        /\ result[1].should_escalate
              <=> \/ Get(AdvisoryResponse, "should_escalate", FALSE)
                  \/ \E n \in 1..7 : Fired(n)
        /\ Get(AdvisoryResponse, "should_escalate", FALSE)
              => result[1].should_escalate

\* C14 witness: the advisory alone escalates a ticket no rule fires on.
C14_Witness ==
    /\ Called
    /\ behaviour[1].kind = "answer"
    /\ Get(behaviour[1].value, "should_escalate", FALSE)
    /\ \A n \in 1..7 : ~Fired(n)
    /\ result[1].should_escalate
    /\ result[1].reason = "AI: advised"

-----------------------------------------------------------------------------
(* C15 *)

\* C15: the combined escalation_type is the rules' type when some rule set
\* one; when none of the rules 1..6 fired and the advisory supplies a type it
\* is the advisory's type; it is "general" only when neither side supplies
\* one.
C15_TypePrecedence ==
    (Called /\ AdvisoryAnswered) =>
        LET advised == Get(AdvisoryResponse, "escalation_type", "")
            typed == \E n \in 1..6 : Fired(n)
        IN  /\ typed => result[1].escalation_type = RuleDecision.escalation_type
            /\ (~typed /\ advised # "") => result[1].escalation_type = advised
            /\ result[1].escalation_type = "general" => (~typed /\ advised = "")

-----------------------------------------------------------------------------
(* C16 *)

\* C16: for every decision returned by evaluate, for any advisory response,
\* confidence is the arithmetic mean of the rule confidence (0.5, 0.7, 0.8 or
\* 0.9) and the advisory confidence, and lies in [0, 1].
C16_ConfidenceIsBoundedMean ==
    (Called /\ AdvisoryAnswered) =>
        /\ RuleDecision.confidence \in {50, 70, 80, 90}
        /\ 2 * result[1].confidence
              = RuleDecision.confidence + Get(AdvisoryResponse, "confidence", 50)
        /\ result[1].confidence >= 0
        /\ result[1].confidence <= 100

-----------------------------------------------------------------------------
(* C17 *)

\* C17: for every ticket whose text holds at least two distinct frustration
\* keywords and a repeated-attempt phrase, rules 6 and 7 both fire and the
\* decision has should_escalate true and type management, whatever the
\* advisory answered and whichever other rules fired.
C17_FrustratedRetryGoesToManagement ==
    (Called /\ AdvisoryAnswered
        /\ FrustrationCount(EvalText) >= 2 /\ AnyIn(RetryIndicators, EvalText)) =>
        /\ In("Customer showing high frustration", result[1].reason)
        /\ In("Multiple failed resolution attempts", result[1].reason)
        /\ result[1].should_escalate
        /\ result[1].escalation_type = "management"

\* C17 witness: the spec's instance (subject "Cannot log in", classified
\* medium with confidence 0.6, no candidates), the advisory against
\* escalating and naming another type.
C17_Witness ==
    /\ Called
    /\ tickets[1].subject = "Cannot log in"
    /\ state[1].classification.priority = "medium"
    /\ state[1].classification.confidence = 60
    /\ state[1].search_results = << >>
    /\ behaviour[1].kind = "answer"
    /\ ~Get(behaviour[1].value, "should_escalate", TRUE)
    /\ Get(behaviour[1].value, "escalation_type", "") = "billing"
    /\ result[1].should_escalate
    /\ result[1].escalation_type = "management"
    /\ result[1].confidence = (90 + Get(behaviour[1].value, "confidence", 50)) \div 2

-----------------------------------------------------------------------------
(* C18 *)

\* The ticket of C18: classified billing, its text with "refund" and
\* "payment failed"
BillingRefundTicket ==
    /\ state[1].classification.category = "billing"
    /\ In("refund", EvalText)
    /\ In("payment failed", EvalText)

\* C18 as stated: for every ticket classified billing whose text holds
\* "refund" and "payment failed", for every candidate list and advisory
\* answer, the decision has should_escalate true and type billing.
C18_BillingRefundGoesToBilling ==
    (Called /\ AdvisoryAnswered /\ BillingRefundTicket) =>
        /\ result[1].should_escalate
        /\ result[1].escalation_type = "billing"

\* C18 amended: the same, for tickets with fewer than two distinct frustration
\* keywords; with two or more, rule 6 runs after rule 5 and hands the ticket
\* to management.
C18_BillingRefundGoesToBillingUnlessFrustrated ==
    (Called /\ AdvisoryAnswered /\ BillingRefundTicket) =>
        /\ result[1].should_escalate
        /\ In("High-impact billing issue", result[1].reason)
        /\ result[1].escalation_type =
              IF FrustrationCount(EvalText) >= 2 THEN "management" ELSE "billing"

\* C18 witness: a calm refund ticket with a well-matching candidate, the
\* advisory against escalating and naming management.
C18_Witness ==
    /\ Called
    /\ BillingRefundTicket
    /\ FrustrationCount(EvalText) < 2
    /\ state[1].search_results # << >>
    /\ state[1].search_results[1].score >= 60
    /\ behaviour[1].kind = "answer"
    /\ ~Get(behaviour[1].value, "should_escalate", TRUE)
    /\ Get(behaviour[1].value, "escalation_type", "") = "management"
    /\ result[1].should_escalate
    /\ result[1].escalation_type = "billing"

-----------------------------------------------------------------------------
(* The response post-processor: ResolutionAgent._post_process_response *)

\* ResolutionAgent.__init__: self.max_response_length
MaxResponseLength == 1000

IsSpace(c) == c \in {" ", "\n", "\t"}

\* s.lstrip()
RECURSIVE LStrip(_)
LStrip(s) ==
    IF Len(s) > 0 /\ IsSpace(SubSeq(s, 1, 1)) THEN LStrip(SubSeq(s, 2, Len(s))) ELSE s

\* s.rstrip()
RECURSIVE RStrip(_)
RStrip(s) ==
    IF Len(s) > 0 /\ IsSpace(SubSeq(s, Len(s), Len(s)))
    THEN RStrip(SubSeq(s, 1, Len(s) - 1)) ELSE s

\* s.strip()
Strip(s) == RStrip(LStrip(s))

\* The position of the first occurrence of k in s, 0 when there is none
Find(k, s) ==
    LET at == {i \in 1..(Len(s) - Len(k) + 1) : SubSeq(s, i, i + Len(k) - 1) = k}
    IN  IF at = {} THEN 0 ELSE CHOOSE i \in at : \A j \in at : i <= j

\* s.split(sep)
RECURSIVE Split(_, _)
Split(s, sep) ==
    LET i == Find(sep, s)
    IN  IF i = 0 THEN <<s>>
        ELSE <<SubSeq(s, 1, i - 1)>> \o Split(SubSeq(s, i + Len(sep), Len(s)), sep)

\* customer_name.split(): the words of the name
NameWords(name) ==
    LET words == Split(Strip(name), " ")
    IN  IF Strip(name) = "" THEN << >> ELSE words

\* _post_process_response: customer_name.split()[0] raises IndexError on a
\* name of blanks
FirstNameRaises(ticket) ==
    ticket.customer_name # "" /\ NameWords(ticket.customer_name) = << >>

\* _post_process_response: email_header
EmailHeader(ticket) ==
    IF ticket.customer_name # ""
    THEN "Subject: Re: " \o ticket.subject \o "\n\nDear "
             \o NameWords(ticket.customer_name)[1] \o ","
    ELSE "Subject: Re: " \o ticket.subject \o "\n\nDear Valued Customer,"

\* _post_process_response: greeting
WithGreeting(response, email_header) ==
    IF \E g \in {"dear", "hello", "hi", "subject:"} : StartsWith(Lower(response), g)
    THEN response
    ELSE email_header \o "\n\nThank you for contacting us. " \o response

\* _post_process_response: closing_phrases
ClosingPhrases ==
    {"thank you", "please let me know", "feel free to",
     "if you have", "best regards", "sincerely"}

\* _post_process_response: closing
WithClosing(response) ==
    IF AnyIn(ClosingPhrases, Lower(response))
    THEN response
    ELSE response \o "\n\nPlease let me know if you need any additional assistance!"

\* _post_process_response: signature
WithSignature(response) ==
    IF \E e \in {"Best regards", "Sincerely", "Thank you"} : EndsWith(response, e)
    THEN response
    ELSE response \o "\n\nBest regards,\nCustomer Support Team"

\* _post_process_response: ticket reference; now is datetime.now() as
\* %Y%m%d%H%M%S
WithTicketReference(response, ticket, classification, now) ==
    IF classification.priority \in {"high", "critical"}
    THEN LET ticket_ref == IdOr(ticket, "TKT-" \o now)
         IN  IF In(ticket_ref, response) THEN response
             ELSE response \o "\n\nTicket Reference: " \o ticket_ref
    ELSE response

\* _post_process_response: the loop over sentences, from sentence k on
RECURSIVE TrimLoop(_, _, _)
TrimLoop(sentences, trimmed, k) ==
    IF k > Len(sentences) THEN trimmed
    ELSE IF Len(trimmed) + Len(sentences[k]) < MaxResponseLength - 3
         THEN TrimLoop(sentences, trimmed \o sentences[k] \o ". ", k + 1)
         ELSE trimmed

\* _post_process_response: length limit
WithLengthLimit(response) ==
    IF Len(response) > MaxResponseLength
    THEN LET trimmed == Strip(TrimLoop(Split(response, ". "), "", 1))
         IN  IF EndsWith(trimmed, ".") THEN trimmed ELSE trimmed \o "..."
    ELSE response

\* ResolutionAgent._post_process_response: the text it returns
PostProcessedText(response, ticket, classification, now) ==
    Strip(WithLengthLimit(
        WithTicketReference(
            WithSignature(WithClosing(WithGreeting(response, EmailHeader(ticket)))),
            ticket, classification, now)))

\* ResolutionAgent._post_process_response: the text, or the exception it raises
PostProcessResponse(response, ticket, classification, now) ==
    IF FirstNameRaises(ticket)
    THEN Raised("list index out of range")
    ELSE [response |-> PostProcessedText(response, ticket, classification, now)]

\* s repeated n times
RECURSIVE Repeat(_, _)
Repeat(s, n) == IF n = 0 THEN "" ELSE s \o Repeat(s, n - 1)

\* Texts the generation advisor returns (llm_service.generate_resolution)
GeneratedTexts ==
    { "You can reset your password from the login page.",
      "Hello, please restart the app and sign in once more. Thank you",
      "Dear customer, your invoice was corrected and sent to you today.",
      "Hi! We are looking into it. Please let me know if it happens once more.\n\nSincerely",
      Repeat("Please restart the router and wait for one minute before you try. ", 16) }

\* Values of datetime.now() during the calls
Clock == {"20240101120000", "20240101120001"}

\* The classifications the post-processor is called with
PostProcessContexts ==
    [ classification :
          [ category : {"account"}, priority : {"medium", "high"},
            confidence : {60}, reasoning : {"advised"} ] ]

InitPostProcess ==
    EngineInit(EngineTickets, PostProcessContexts,
               { [kind |-> "answer", value |-> t] : t \in GeneratedTexts },
               "post_process_response")

\* _post_process_response on the generated text; what it returned is kept in
\* executed[1]
PostProcessCall ==
    /\ pc[1] = "post_process_response"
    /\ \E now \in Clock :
          executed' = << << PostProcessResponse(behaviour[1].value, tickets[1],
                                                state[1].classification, now) >> >>
    /\ pc' = <<"post_process_again">>
    /\ UNCHANGED <<tickets, behaviour, state, result, batch_vars>>

\* _post_process_response on what the first call returned
PostProcessAgainCall ==
    /\ pc[1] = "post_process_again"
    /\ \E now \in Clock :
          result' = << IF IsException(executed[1][1]) THEN executed[1][1]
                       ELSE PostProcessResponse(executed[1][1].response, tickets[1],
                                                state[1].classification, now) >>
    /\ pc' = <<"done">>
    /\ UNCHANGED <<tickets, behaviour, state, executed, batch_vars>>

NextPostProcess ==
    \/ PostProcessCall
    \/ PostProcessAgainCall

SpecPostProcess == InitPostProcess /\ [][NextPostProcess]_vars

-----------------------------------------------------------------------------
(* C20 *)

\* C20: the post-processor is idempotent on its own output: for every
\* generated text, ticket and classification, applying it to an already
\* post-processed response returns that response unchanged, with no second
\* greeting, closing offer, signature block or ticket reference.
C20_PostProcessIdempotent ==
    (Called /\ ~IsException(result[1])) => result[1].response = executed[1][1].response

-----------------------------------------------------------------------------
(* The knowledge ranker: KnowledgeAgent.search_knowledge_base               *)
(*                                                                         *)
(* Scores of the knowledge store and of the ranker are whole multiples of  *)
(* 1/10,000,000 (FullScore is 1.0): raw scores are whole hundredths and    *)
(* the three boosts are tenths and hundredths, so every product is exact.  *)
(* A rating is kept in tenths (45 is 4.5), 0 when the article has none.    *)

\* 1.0, the cap of an adjusted score
FullScore == 10000000

\* KnowledgeAgent.min_relevance_score, 0.3
MinRelevanceScore == 3000000

\* KnowledgeAgent.max_articles
MaxArticles == 5

\* A hit of the knowledge store: the article and its raw score (in hundredths)
\* for the query at hand; the store's own relevance label, which the ranker
\* replaces, is not kept
Article(n, category, raw, resolution_count, rating) ==
    [article_id |-> "kb-" \o ToString(n), category |-> category,
     resolution_count |-> resolution_count, rating |-> rating,
     score |-> raw * (FullScore \div 100), relevance |-> ""]

\* The articles an index can hold, best raw score first (the store answers
\* in the order of its own score)
IndexedArticles ==
    << Article(1, "technical", 95, 0, 0),
       Article(2, "account", 90, 3, 45),
       Article(3, "billing", 55, 0, 0),
       Article(4, "account", 50, 200, 50),
       Article(5, "billing", 40, 0, 30),
       Article(6, "technical", 30, 10, 0),
       Article(7, "account", 29, 200, 50) >>

\* The knowledge indexes: every selection of the articles, in store order
KnowledgeIndexes ==
    { SelectSeq(IndexedArticles, LAMBDA a : a.article_id \in ids) :
        ids \in SUBSET {IndexedArticles[k].article_id : k \in 1..Len(IndexedArticles)} }

\* ElasticsearchService.hybrid_search: the hits of the category asked for
\* ("" is no filter), at most top_k of them; [] when the search fails
HybridSearch(articles, category, top_k, b) ==
    IF b.kind = "store_error"
    THEN << >>
    ELSE Take(SelectSeq(articles, LAMBDA a : category = "" \/ a.category = category),
              top_k)

\* What the store returned to search_knowledge_base
Retrieved(articles, classification, b) ==
    LET category_filter ==
            IF classification # EmptyDict /\ classification.confidence > 70
            THEN classification.category ELSE ""
    IN  HybridSearch(articles, category_filter, MaxArticles, b)

\* list.sort(key=score, reverse=True): descending, equal scores keep their order
RECURSIVE SortByScore(_)
SortByScore(results) ==
    IF results = << >>
    THEN << >>
    ELSE LET x == Head(results)
             rest == SortByScore(Tail(results))
             k == Cardinality({j \in 1..Len(rest) : rest[j].score > x.score})
         IN  SubSeq(rest, 1, k) \o <<x>> \o SubSeq(rest, k + 1, Len(rest))

\* KnowledgeAgent._enhance_search_results with _calculate_enhanced_relevance
EnhanceSearchResults(results, classification) ==
    LET category_match(r) ==
            classification # EmptyDict /\ r.category = classification.category
        adjusted_score(r) ==
            (r.score \div (FullScore \div 100))
            * (IF category_match(r) THEN 12 ELSE 10)
            * (IF r.resolution_count > 0
               THEN 100 + Min2(r.resolution_count, 20) ELSE 100)
            * (IF r.rating # 0 /\ r.rating > 30 THEN 100 + (r.rating - 30) ELSE 100)
        relevance(score) ==
            IF score >= 9000000 THEN "Excellent"
            ELSE IF score >= 7500000 THEN "Very High"
            ELSE IF score >= 6000000 THEN "High"
            ELSE IF score >= 4500000 THEN "Medium"
            ELSE IF score >= 3000000 THEN "Low"
            ELSE "Very Low"
        enhanced(r) ==
            [r EXCEPT !.score = Min2(adjusted_score(r), FullScore),
                      !.relevance = relevance(adjusted_score(r))]
    IN  SortByScore([k \in 1..Len(results) |-> enhanced(results[k])])

\* (mutant of SearchKnowledgeBaseOn) the floor applied to the adjusted score
SearchKnowledgeBaseFloorAfterBoost(articles, classification, b) ==
    IF b.kind = "embedding_error"
    THEN << >>
    ELSE SelectSeq(EnhanceSearchResults(Retrieved(articles, classification, b),
                                        classification),
                   LAMBDA r : r.score >= MinRelevanceScore)

\* KnowledgeAgent.search_knowledge_base over the index `articles`; b says
\* whether the embedding service and the store answer
SearchKnowledgeBaseOn(articles, classification, b) ==
    IF b.kind = "embedding_error"
    THEN << >>
    ELSE LET results == Retrieved(articles, classification, b)
             filtered_results ==
                 SelectSeq(results, LAMBDA r : r.score >= MinRelevanceScore)
         IN  EnhanceSearchResults(filtered_results, classification)

\* The classifications the ranker is called with
RankerClassifications ==
    { EmptyDict }
    \cup { [category |-> c, priority |-> "medium", confidence |-> k,
            reasoning |-> "advised"] :
             c \in {"technical", "billing", "general"}, k \in {60, 80} }

InitRank ==
    /\ tickets = << EngineTicket("TKT-11", "Ada Lovelace", "Export",
                                 "How do I export my data?") >>
    /\ state \in {<<[classification |-> c]>> : c \in RankerClassifications}
    /\ behaviour \in {<<[kind |-> k]>> :
                         k \in {"answer", "store_error", "embedding_error"}}
    /\ store \in KnowledgeIndexes
    /\ pc = <<"search_knowledge_base">>
    /\ result = <<NotReturned>>
    /\ executed = << << >> >>
    /\ sem_value = 0
    /\ done_order = << >>
    /\ batch_pc = "none"
    /\ batch_result = << >>

\* search_knowledge_base is called; what the store returned to it is kept in
\* executed[1]
SearchKnowledgeBaseCall ==
    /\ pc[1] = "search_knowledge_base"
    /\ pc' = <<"done">>
    /\ executed' = << IF behaviour[1].kind = "embedding_error" THEN << >>
                      ELSE Retrieved(store, state[1].classification, behaviour[1]) >>
    /\ result' = << SearchKnowledgeBaseOn(store, state[1].classification,
                                          behaviour[1]) >>
    /\ UNCHANGED <<tickets, behaviour, state, sem_value, done_order, batch_pc,
                   batch_result, store>>

NextRank == SearchKnowledgeBaseCall

SpecRank == InitRank /\ [][NextRank]_vars

\* The retrieved candidates at or above the floor, in store order
AboveFloor == SelectSeq(executed[1], LAMBDA r : r.score >= MinRelevanceScore)

\* Where the store had article id among the retrieved candidates
StorePosition(id) ==
    CHOOSE k \in 1..Len(executed[1]) : executed[1][k].article_id = id

\* C22: the list the ranker returns holds exactly the retrieved candidates
\* whose raw score is at least 0.3, each once, ordered by non-increasing
\* adjusted score, and candidates with equal adjusted score keep the order in
\* which the store returned them.
C22_RankedIsFloorFilteredStableSorted ==
    Called =>
        LET ranked == result[1]
        IN  /\ Len(ranked) = Len(AboveFloor)
            /\ {ranked[k].article_id : k \in 1..Len(ranked)}
                 = {AboveFloor[k].article_id : k \in 1..Len(AboveFloor)}
            /\ \A j, k \in 1..Len(ranked) :
                  j < k =>
                     /\ ranked[j].score >= ranked[k].score
                     /\ ranked[j].score = ranked[k].score
                           => StorePosition(ranked[j].article_id)
                                < StorePosition(ranked[k].article_id)

\* The ranker dropped a candidate whose boosted score would pass the floor,
\* moved a candidate ahead of one the store had put first, and returned two
\* candidates with equal adjusted score
C22_Witness ==
    /\ Called
    /\ \E k \in 1..Len(executed[1]) :
          /\ executed[1][k].score < MinRelevanceScore
          /\ EnhanceSearchResults(<<executed[1][k]>>,
                                  state[1].classification)[1].score
               >= MinRelevanceScore
    /\ \E j, k \in 1..Len(result[1]) :
          /\ j < k
          /\ StorePosition(result[1][j].article_id)
               > StorePosition(result[1][k].article_id)
    /\ \E j, k \in 1..Len(result[1]) :
          j < k /\ result[1][j].score = result[1][k].score

-----------------------------------------------------------------------------
(* The resolution synthesizer in detail: _generate_resolution_node over    *)
(* ResolutionAgent.generate_resolution and the knowledge store             *)
(*                                                                         *)
(* The confidence the AI path computes is kept, like the scores it is      *)
(* computed from, in units of 1/10,000,000; the confidences the code       *)
(* writes as constants stay whole percents.                                *)

\* sum(r.score for r in search_results)
RECURSIVE SumScores(_)
SumScores(results) ==
    IF results = << >> THEN 0 ELSE Head(results).score + SumScores(Tail(results))

\* (mutant of ClampConfidence) the sum returned as it is
ClampConfidenceMissing(final_confidence) == final_confidence

\* _calculate_resolution_confidence: min(max(final_confidence, 0.1), 0.95)
ClampConfidence(final_confidence) ==
    Min2(IF final_confidence >= 1000000 THEN final_confidence ELSE 1000000,
         9500000)

\* ResolutionAgent._calculate_resolution_confidence; classification.confidence
\* is a whole percent, response_length a number of characters
CalculateResolutionConfidence(classification, search_results, response_length) ==
    LET classification_factor == classification.confidence * 30000
        kb_factor ==
            IF search_results # << >>
            THEN LET avg_kb_score == SumScores(search_results) \div Len(search_results)
                 IN  (avg_kb_score * 4) \div 10
            ELSE 1000000
        completeness_score ==
            IF response_length > 200
            THEN Min2(response_length * (FullScore \div 500), FullScore)
            ELSE 3000000
        category_factor ==
            CASE classification.category = "general"   -> 8000000
              [] classification.category = "product"   -> 7000000
              [] classification.category = "account"   -> 7500000
              [] classification.category = "billing"   -> 6000000
              [] classification.category = "technical" -> 5000000
              [] OTHER -> 6000000
    IN  ClampConfidence(classification_factor + kb_factor
                        + (completeness_score * 2) \div 10
                        + category_factor \div 10)

\* (mutant of UpdateStatsRaises) update_article_stats without its try block
UpdateStatsRaisesUnguarded(article_id, failing) == article_id \in failing

\* ElasticsearchService.update_article_stats catches what the store raises:
\* nothing reaches the caller
UpdateStatsRaises(article_id, failing) == FALSE

\* ElasticsearchService.update_article_stats: resolution_count += 1 in the
\* index, unless the store fails for this article
UpdateArticleStats(articles, article_id, failing) ==
    [k \in 1..Len(articles) |->
        IF articles[k].article_id = article_id /\ article_id \notin failing
        THEN [articles[k] EXCEPT !.resolution_count = @ + 1]
        ELSE articles[k]]

\* _generate_ai_resolution: article_ids
ArticleIds(search_results) ==
    [k \in 1..Len(Take(search_results, 3)) |-> search_results[k].article_id]

\* ResolutionAgent.generate_resolution on the AI path, up to the usage updates,
\* as the outcome _generate_resolution_node sees. adv is what the generation
\* advisor does. On a customer_name of blanks _post_process_response raises
\* and so does _get_fallback_response in the except block of
\* generate_resolution: the exception reaches the node.
GenerationOutcome(ticket, classification, search_results, adv, now) ==
    IF FirstNameRaises(ticket)
    THEN [kind |-> "stage_error", value |-> EmptyDict]
    ELSE IF adv.kind = "error"
    THEN [kind |-> "advisor_error", value |-> EmptyDict]
    ELSE [kind |-> "answer",
          value |-> [response |-> PostProcessedText(adv.value, ticket,
                                                    classification, now),
                     confidence |-> CalculateResolutionConfidence(
                                        classification, search_results,
                                        Len(adv.value))]]

\* The tickets the synthesizer is given: with and without an id, and one whose
\* customer_name is a blank
ResolutionTickets ==
    { t \in EngineTickets : t.subject \in {"App crash", "Data request", "Invoice"} }

\* The indexes the candidates are ranked from
ResolutionIndexes ==
    { SelectSeq(IndexedArticles, LAMBDA a : a.article_id \in ids) :
        ids \in { {}, {"kb-1", "kb-2"}, {"kb-3", "kb-4", "kb-5"},
                  {"kb-1", "kb-2", "kb-3", "kb-4", "kb-5", "kb-6", "kb-7"} } }

ResolutionClassifications ==
    [ category : TicketCategories, priority : {"medium", "high"},
      confidence : {0, 60, 100}, reasoning : {"advised"} ]

\* The decisions check_escalation stored
ResolutionDecisions ==
    { [should_escalate |-> FALSE, reason |-> "AI: routine request",
       escalation_type |-> "", priority_level |-> "standard", confidence |-> 80],
      [should_escalate |-> TRUE, reason |-> "AI: needs a specialist",
       escalation_type |-> "billing", priority_level |-> "standard",
       confidence |-> 80] }

\* What the generation advisor does, and the articles for which the store
\* fails to count a use
ResolutionBehaviours(ticket) ==
    [ executor : {"none"}, handler_raises : {FALSE},
      branch : {[kind |-> IF FirstNameRaises(ticket) THEN "stage_error" ELSE "answer",
                 value |-> EmptyDict]},
      generate : {[kind |-> "error", value |-> ""]}
                 \cup {[kind |-> "answer", value |-> t] :
                          t \in {"You can reset your password from the login page.",
                                 Repeat("Please restart the router and wait for one minute before you try. ", 4),
                                 Repeat("Please restart the router and wait for one minute before you try. ", 16)}},
      failing : {{}, {"kb-1"}, {"kb-3", "kb-4"}} ]

\* The run has classified, searched and checked: it stands before its branch
InitResolution ==
    /\ \E t \in ResolutionTickets, c \in ResolutionClassifications,
          d \in ResolutionDecisions :
          /\ tickets = <<t>>
          /\ behaviour \in {<<b>> : b \in ResolutionBehaviours(t)}
          /\ store \in ResolutionIndexes
          /\ state = << [InitialState(t) EXCEPT
                           !.classification = c,
                           !.knowledge_results =
                               SearchKnowledgeBaseOn(store, c, [kind |-> "answer"]),
                           !.escalation_decision = d,
                           !.workflow_status = StatusAfter("check_escalation")] >>
          /\ pc = << NextNode("check_escalation", state[1]) >>
    /\ result = <<NotReturned>>
    /\ executed = << << >> >>
    /\ sem_value = 0
    /\ done_order = << >>
    /\ batch_pc = "none"
    /\ batch_result = << >>

\* The usage updates run i has requested so far
UpdatesRequested(i) ==
    SelectSeq(executed[i], LAMBDA e : StartsWith(e, "update_article_stats "))

\* generate_resolution returns or raises and _generate_resolution_node stores
\* the resolution
StoreResolution(i, outcome) ==
    /\ state' = [state EXCEPT
                    ![i] = GenerateResolutionNode(state[i], [branch |-> outcome])]
    /\ executed' = [executed EXCEPT ![i] = Append(@, "generate_resolution")]
    /\ pc' = [pc EXCEPT ![i] = NextNode("generate_resolution", state'[i])]

\* _generate_resolution_node calls generate_resolution: the generation
\* advisor, the confidence, the post-processing
GenerateAiStep(i) ==
    /\ pc[i] = "generate_resolution"
    /\ \E now \in Clock :
          LET outcome == GenerationOutcome(
                             tickets[i], state[i].classification,
                             state[i].knowledge_results, behaviour[i].generate, now)
          IN  IF outcome.kind = "answer"
              THEN /\ pc' = [pc EXCEPT ![i] = "update_article_stats"]
                   /\ executed' = [executed EXCEPT
                                      ![i] = Append(@, "generation advisor answered")]
                   /\ UNCHANGED state
              ELSE StoreResolution(i, outcome)
    /\ UNCHANGED <<tickets, behaviour, result, batch_vars>>

\* _generate_ai_resolution: the next `await es_service.update_article_stats`
RequestUpdate(i) ==
    /\ pc[i] = "update_article_stats"
    /\ LET article_ids == ArticleIds(state[i].knowledge_results)
           k == Len(UpdatesRequested(i)) + 1
       IN  /\ k <= Len(article_ids)
           /\ store' = UpdateArticleStats(store, article_ids[k], behaviour[i].failing)
           /\ IF UpdateStatsRaises(article_ids[k], behaviour[i].failing)
              THEN /\ state' = [state EXCEPT ![i] =
                           GenerateResolutionNode(
                               state[i],
                               [branch |-> [kind |-> "advisor_error",
                                            value |-> EmptyDict]])]
                   /\ executed' = [executed EXCEPT ![i] =
                           Append(Append(@, "update_article_stats " \o article_ids[k]),
                                  "generate_resolution")]
                   /\ pc' = [pc EXCEPT ![i] = NextNode("generate_resolution", state'[i])]
              ELSE /\ executed' = [executed EXCEPT ![i] =
                           Append(@, "update_article_stats " \o article_ids[k])]
                   /\ UNCHANGED <<state, pc>>
    /\ UNCHANGED <<tickets, behaviour, result, sem_value, done_order, batch_pc,
                   batch_result>>

\* _generate_ai_resolution returns its Resolution after the last update
ReturnAiResolution(i) ==
    /\ pc[i] = "update_article_stats"
    /\ Len(UpdatesRequested(i)) = Len(ArticleIds(state[i].knowledge_results))
    /\ \E now \in Clock :
          StoreResolution(i, GenerationOutcome(
                                 tickets[i], state[i].classification,
                                 state[i].knowledge_results, behaviour[i].generate, now))
    /\ UNCHANGED <<tickets, behaviour, result, batch_vars>>

NextResolution ==
    \/ \E i \in Runs : GenerateAiStep(i)
    \/ \E i \in Runs : RequestUpdate(i)
    \/ \E i \in Runs : ReturnAiResolution(i)
    \/ \E i \in Runs : EscalateTicket(i)
    \/ \E i \in Runs : Finalize(i)

SpecResolution == InitResolution /\ [][NextResolution]_vars

\* The run took the AI branch
OnAiPath == ShouldEscalate(state[1]) = "resolve"

\* The resolution the ended run returned
ReturnedResolution == result[1].resolution

\* C21: every Resolution of the AI path (agent_type ai) has a confidence in
\* [0.1, 0.95], whatever the classification confidence, the candidates'
\* scores and number, and the length of the generated text.
C21_AiConfidenceClamped ==
    (Called /\ ReturnedResolution.agent_type = "ai")
        => /\ ReturnedResolution.confidence >= 1000000
           /\ ReturnedResolution.confidence <= 9500000

\* The clamp binds: full classification confidence, a candidate of score 1.0,
\* a text longer than 500 characters, category account (a sum of 0.975)
C21_Witness ==
    /\ Called
    /\ ReturnedResolution.agent_type = "ai"
    /\ ReturnedResolution.confidence = 9500000
    /\ state[1].classification.confidence = 100
    /\ state[1].classification.category = "account"
    /\ \A k \in 1..Len(state[1].knowledge_results) :
          state[1].knowledge_results[k].score = FullScore
    /\ Len(behaviour[1].generate.value) > 500

\* The confidence of C26 for the run at hand: K is the mean over the up to
\* three candidates handed to the generator, 0.1 when there are none
WeightedConfidence ==
    LET classification == state[1].classification
        supplied == Take(state[1].knowledge_results, 3)
        length == Len(behaviour[1].generate.value)
        K == IF supplied = << >> THEN 1000000
             ELSE SumScores(supplied) \div Len(supplied)
        C == IF length > 200 THEN Min2(length * (FullScore \div 500), FullScore)
             ELSE 3000000
        B == CASE classification.category = "general"   -> 8000000
               [] classification.category = "product"   -> 7000000
               [] classification.category = "account"   -> 7500000
               [] classification.category = "billing"   -> 6000000
               [] classification.category = "technical" -> 5000000
        sum == classification.confidence * 30000 + (K * 4) \div 10
               + (C * 2) \div 10 + B \div 10
    IN  IF sum < 1000000 THEN 1000000 ELSE IF sum > 9500000 THEN 9500000 ELSE sum

\* C26: the confidence of the AI path is the clamp to [0.1, 0.95] of
\* 0.3 x classification confidence + 0.4 x K + 0.2 x C + 0.1 x B, with K the
\* mean score of the up to three candidates supplied to the generator or 0.1
\* when there are none, C the completeness of the generated text and B the
\* base rate of the category.
C26_ConfidenceIsWeightedSum ==
    (Called /\ ReturnedResolution.agent_type = "ai")
        => ReturnedResolution.confidence = WeightedConfidence

\* The generation advisor call or the post-processing raised in the run
GenerationFailed ==
    \/ behaviour[1].generate.kind = "error"
    \/ FirstNameRaises(tickets[1])

\* C23: on the AI path, when the generation advisor call, the confidence
\* computation or the post-processing raises, the run's resolution is the
\* fallback (the fixed apology text, confidence 0.2, no articles used,
\* agent_type ai_fallback) and the run still ends completed.
C23_GenerationFailureGivesAiFallback ==
    (Called /\ OnAiPath /\ GenerationFailed)
        => /\ ReturnedResolution.agent_type = "ai_fallback"
           /\ ReturnedResolution.confidence = 20
           /\ ReturnedResolution.knowledge_articles_used = << >>
           /\ ReturnedResolution.response = FallbackResponse
           /\ result[1].workflow_status = "completed"

\* C27: a successful AI resolution names the ids of the first min(3, n) ranked
\* candidates in rank order; one usage increment is requested for each of
\* them, once, and none before the generation advisor has answered; an
\* increment that fails leaves the Resolution an AI resolution; no increment
\* is requested on the escalation path or when the resolution is a fallback.
C27_UsageIncrementsFollowTheAnswer ==
    LET ranked == state[1].knowledge_results
        n == IF Len(ranked) < 3 THEN Len(ranked) ELSE 3
        log == executed[1]
    IN  /\ \A k \in 1..Len(log) :
              StartsWith(log[k], "update_article_stats ")
                 => \E j \in 1..(k - 1) : log[j] = "generation advisor answered"
        /\ (Called /\ OnAiPath /\ ~GenerationFailed)
              => ReturnedResolution.agent_type = "ai"
        /\ (Called /\ ReturnedResolution.agent_type = "ai")
              => /\ ReturnedResolution.knowledge_articles_used
                      = [k \in 1..n |-> ranked[k].article_id]
                 /\ UpdatesRequested(1)
                      = [k \in 1..n |-> "update_article_stats " \o ranked[k].article_id]
        /\ (Called /\ ReturnedResolution.agent_type # "ai")
              => UpdatesRequested(1) = << >>

\* An AI resolution over five ranked candidates: three increments requested,
\* one of which the store failed to apply
C27_Witness ==
    /\ Called
    /\ ReturnedResolution.agent_type = "ai"
    /\ Len(state[1].knowledge_results) = 5
    /\ Len(UpdatesRequested(1)) = 3
    /\ \E k \in 1..3 :
          /\ ReturnedResolution.knowledge_articles_used[k] \in behaviour[1].failing
          /\ \E a \in 1..Len(store) :
                /\ store[a].article_id = ReturnedResolution.knowledge_articles_used[k]
                /\ store[a].resolution_count = 0
    /\ \E a \in 1..Len(store) :
          /\ store[a].article_id = "kb-2"
          /\ store[a].resolution_count = 4

-----------------------------------------------------------------------------
(* C24 *)

\* The text of the ticket holds one of the legal and security keywords of C24
HasLegalOrSecurityKeyword ==
    AnyIn({"legal", "lawsuit", "lawyer", "attorney", "court",
           "hack", "breach", "fraud", "scam", "theft"}, EvalText)

\* The type rule 3 gives: legal on a legal-specific keyword, security otherwise
LegalOrSecurity ==
    IF AnyIn({"legal", "lawsuit", "lawyer"}, EvalText) THEN "legal" ELSE "security"

-----------------------------------------------------------------------------
(* C25: the routing of a decision, as _check_escalation_node derives it     *)

\* _check_escalation_node: get_escalation_routing on the decision evaluate
\* returned; the routing is kept in executed[1]
GetEscalationRoutingCall ==
    /\ pc[1] = "done"
    /\ pc' = <<"routed">>
    /\ executed' = << <<GetEscalationRouting(result[1])>> >>
    /\ UNCHANGED <<tickets, behaviour, state, result, batch_vars>>

NextRouting ==
    \/ EvaluateEscalationCall
    \/ GetEscalationRoutingCall

SpecRouting == InitEscalation /\ [][NextRouting]_vars

\* C25: for every escalated decision with priority_level urgent, whatever its
\* escalation_type, the routing's skill level is raised above the standard
\* tier.
C25_UrgentRaisesSkillLevel ==
    (pc[1] = "routed" /\ result[1].should_escalate
        /\ result[1].priority_level = "urgent")
        => executed[1][1].skill_level # "standard"

-----------------------------------------------------------------------------
(* The API around process_ticket: POST /tickets/{ticket_id}/process         *)

\* process_ticket (main.py): the TicketStatus chosen from the workflow_status
\* of the result
ApiTicketStatus(workflow_result) ==
    IF workflow_result.workflow_status = "escalated" THEN "escalated"
    ELSE IF workflow_result.workflow_status = "completed" THEN "resolved"
    ELSE "in_progress"

\* The endpoint, after support_workflow.process_ticket returned: the status of
\* the stored ticket is updated
ApiUpdateStatus(i) ==
    /\ pc[i] = "done"
    /\ batch_pc = "none"
    /\ pc' = [pc EXCEPT ![i] = "stored"]
    /\ tickets' = [tickets EXCEPT
                      ![i] = SetKey(@, "status", ApiTicketStatus(result[i]))]
    /\ UNCHANGED <<behaviour, state, result, executed, batch_vars>>

NextApi ==
    \/ Next
    \/ \E i \in Runs : ApiUpdateStatus(i)

\* create_ticket gave the ticket its id before it is processed
InitApi == Init /\ tickets[1].id # NoId

SpecApi == InitApi /\ [][NextApi]_vars

\* C28: after the API has processed a ticket, the status of the stored ticket
\* tells the branch its run took: escalated when the run went through
\* escalate_ticket, resolved when it went through generate_resolution
\* (stated here for the runs that ended completed).
C28_StatusReflectsBranch ==
    (pc[1] = "stored" /\ result[1].workflow_status = "completed") =>
        /\ "escalate_ticket" \in Range(executed[1])
              => tickets[1].status = "escalated"
        /\ "generate_resolution" \in Range(executed[1])
              => tickets[1].status = "resolved"

-----------------------------------------------------------------------------
(* A run end to end: the nodes over the classification and escalation      *)
(* engines                                                                 *)

\* What the agents return to the nodes of a run on ticket t, when the
\* classification advisor does cadv, the store answers with results, the
\* escalation advisor does eadv and the resolution agent ends as branch says:
\* classify_ticket and evaluate_escalation catch the failures of their
\* advisors themselves. The advisors' behaviour is kept beside it.
EndToEndBehaviour(t, cadv, results, eadv, branch) ==
    LET classification == ClassifierClassify(t, cadv)
        decision == EvaluateEscalationOn(t, classification, results, eadv)
    IN  [classify |-> [kind |-> "answer", value |-> classification],
         search |-> [kind |-> "answer", value |-> results],
         check |-> [kind |-> "answer", value |-> decision],
         branch |-> branch,
         executor |-> "ok", handler_raises |-> FALSE,
         classify_advisor |-> cadv, check_advisor |-> eadv]

\* process_ticket(ticket) with each advisor failing, answering what it cannot
\* be parsed from, or answering that the ticket is routine
InitEndToEnd ==
    /\ \E t \in EngineTickets,
          cadv \in {a \in ClassifyAdvisories :
                      a.kind = "answer" =>
                         /\ a.value # EmptyDict
                         /\ DOMAIN a.value
                              = {"category", "priority", "confidence", "reasoning"}
                         /\ a.value.category \in {"general", "billing"}
                         /\ a.value.priority = "low"
                         /\ a.value.confidence = 85},
          results \in RankedLists,
          eadv \in {a \in EscalationAdvisories :
                      a.kind = "answer" =>
                         /\ DOMAIN a.value
                              = {"should_escalate", "reason", "escalation_type",
                                 "priority_level", "confidence"}
                         /\ a.value.escalation_type = ""
                         /\ a.value.priority_level = "standard"
                         /\ a.value.confidence = 86},
          branch \in {[kind |-> "advisor_error", value |-> EmptyDict]}
                     \cup {[kind |-> "answer", value |-> g] : g \in GeneratedReplies} :
          /\ tickets = <<t>>
          /\ behaviour = <<EndToEndBehaviour(t, cadv, results, eadv, branch)>>
          /\ state = <<InitialState(t)>>
    /\ pc = <<"classify">>
    /\ result = <<NotReturned>>
    /\ executed = << << >> >>
    /\ sem_value = 0
    /\ done_order = << >>
    /\ batch_pc = "none"
    /\ batch_result = << >>
    /\ store = << >>

NextEndToEnd ==
    \/ \E i \in Runs : Classify(i)
    \/ \E i \in Runs : SearchKnowledge(i)
    \/ \E i \in Runs : CheckEscalation(i)
    \/ \E i \in Runs : GenerateResolutionStep(i)
    \/ \E i \in Runs : EscalateTicket(i)
    \/ \E i \in Runs : Finalize(i)

SpecEndToEnd == InitEndToEnd /\ [][NextEndToEnd]_vars

\* C30: end to end, every ticket whose text holds one of hack, breach,
\* security, fraud, phishing is handed to a human whatever the advisors do,
\* failure included: its run goes through escalate_ticket and does not return
\* a resolution of agent_type ai, ai_fallback or fallback.
C30_SecurityTicketAlwaysEscalated ==
    (Called /\ AnyIn({"hack", "breach", "security", "fraud", "phishing"},
                     FullText(tickets[1])))
        => /\ "escalate_ticket" \in Range(executed[1])
           /\ result[1].resolution.agent_type \notin {"ai", "ai_fallback", "fallback"}

-----------------------------------------------------------------------------
(* process_batch over the knowledge index its runs share: every run ranks  *)
(* its candidates from the index as it stands when the run searches, and   *)
(* counts a use of its best three in the same index                        *)

\* The index the batch starts from: two articles the store scores alike for
\* the question asked, neither used before
SharedIndex ==
    << Article(8, "technical", 50, 0, 0), Article(9, "billing", 50, 0, 0) >>

\* What a run of the batch meets: the same question, classified as billing
\* with confidence 0.85 or as general with confidence 0.6
SharedBehaviours ==
    LET ans(v) == [kind |-> "answer", value |-> v]
        b(category, confidence) ==
            [classify |-> ans([category |-> category, priority |-> "medium",
                               confidence |-> confidence, reasoning |-> "advised"]),
             check |-> ans(CHOOSE d \in EvaluatedDecisions : ~d.should_escalate),
             generate |-> ans("You can download every invoice from the billing page."),
             failing |-> {}, executor |-> "none", handler_raises |-> FALSE]
    IN  << b("billing", 85), b("general", 60) >>

InitShared ==
    /\ \E n \in 1..SemaphorePermits :
          /\ tickets = [i \in 1..n |->
                           EngineTicket("TKT-2" \o ToString(i), "Ada Lovelace",
                                        "Invoice", "Where do I find my invoices?")]
          /\ behaviour \in [1..n -> Range(SharedBehaviours)]
          /\ pc = [i \in 1..n |-> "waiting"]
          /\ state = [i \in 1..n |-> EmptyDict]
          /\ result = [i \in 1..n |-> NotReturned]
          /\ executed = [i \in 1..n |-> << >>]
    /\ sem_value = SemaphorePermits
    /\ done_order = << >>
    /\ batch_pc = "gathering"
    /\ batch_result = << >>
    /\ store = SharedIndex

\* _search_knowledge_node over the index as it stands
SearchKnowledgeInStore(i) ==
    /\ LET results == SearchKnowledgeBaseOn(store, state[i].classification,
                                             [kind |-> "answer"])
       IN  RunNode(i, "search_knowledge",
                   [state[i] EXCEPT
                      !.knowledge_results = results,
                      !.metadata = SetKey(@, "search_summary",
                                          GetArticleSummary(results)),
                      !.workflow_status = StatusAfter("search_knowledge")])
    /\ Continue(i, "search_knowledge")

NextShared ==
    \/ \E i \in Runs : Acquire(i)
    \/ \E i \in Runs : Classify(i)
    \/ \E i \in Runs : SearchKnowledgeInStore(i)
    \/ \E i \in Runs : CheckEscalation(i)
    \/ \E i \in Runs : GenerateAiStep(i)
    \/ \E i \in Runs : RequestUpdate(i)
    \/ \E i \in Runs : ReturnAiResolution(i)
    \/ \E i \in Runs : Finalize(i)
    \/ BatchReturn

SpecShared == InitShared /\ [][NextShared]_vars

\* What process_ticket ranks for run i's ticket when it runs alone against
\* the index the batch started from
RankedAlone(i) ==
    SearchKnowledgeBaseOn(SharedIndex, result[i].classification, [kind |-> "answer"])

\* C29: the runs of a batch do not interfere: the ranked candidates and their
\* scores in every run's result are those process_ticket returns for the
\* ticket run alone against the initial knowledge index; the usage increments
\* of one run never change the ranking of a sibling.
C29_RunsDoNotInterfere ==
    \A i \in Runs :
        (pc[i] = "done" /\ IsState(result[i]))
            => result[i].knowledge_results = RankedAlone(i)

\* The weaker statement that only the order of the candidates is the one of
\* the run alone
SiblingKeepsRanking ==
    \A i \in Runs :
        (pc[i] = "done" /\ IsState(result[i]))
            => ArticleIds(result[i].knowledge_results) = ArticleIds(RankedAlone(i))

=============================================================================
